---- MODULE Spec2Model ----
(***************************************************************************)
(* Planner workflow orchestration: the WorkflowStateManager of             *)
(* planner-orchestrator/state_manager.py driving the PlannerClient of      *)
(* planner-orchestrator/planner_client.py against a remote Planner board,  *)
(* as a library and from the command line (scripts/orchestrate_planner.py).*)
(*                                                                         *)
(* An operation of the manager runs sequentially; its only suspension      *)
(* points are the blocking board calls.  One action of the model is one    *)
(* board call together with all the local computation that follows it up   *)
(* to the next board call (or to the operation's return or raise).         *)
(***************************************************************************)
EXTENDS Integers, Sequences, FiniteSets, TLC

VARIABLES
    doc,        \* the workflow mapping the manager mutates in place
    board,      \* the remote board: task id -> task resource
    now,        \* the wall clock read by utc_now_iso
    op,         \* the operation in progress or last run: [kind, target]
    pc,         \* "idle" | "run" | "done" | "raised"
    err,        \* the exception of a raised operation
    pos,        \* [pi, ti]: phase and task position of the next board call
    held,       \* _sync_phase_tasks: the task read by get_task, awaiting update_task
    fetched,    \* per phase, the snapshots get_task returned in this operation
    calls,      \* the board-client calls of this operation, in order
    result,     \* the report an operation returns (blocker_report, closeout_pack)
    prev,       \* the previous operation: [kind, target, pc, doc]
    opsLeft,    \* operations still to be started
    faultsLeft, \* transport faults and empty bodies the board may still produce
    editsLeft,  \* edits other editors may still make on the board
    evalIn,     \* evaluate_phase_state called on its own: the task list
    evalOut,    \* ... and its result
    depOut,     \* _validate_dependencies called on its own: its result
    dry,        \* PlannerClient.dry_run
    sent,       \* the HTTP requests _request sent in this operation, in order
    cli,        \* main(): [on, output, phase, group, title]: run from the command
                \* line, and which of --output, --phase, --group-id and --plan-title
                \* are given (and not empty)
    files,      \* the workflow file and the --output file
    remote,     \* the plans, buckets and tasks created on the board
    stage,      \* init_plan: the board call it makes next
    reqIn,      \* _request called on its own: [method, response]
    runs,       \* invocations of main() running side by side on one workflow file
    worklogs    \* PendingWorklogProcessor: its directories and its process_all loop

vars == <<doc, board, now, op, pc, err, pos, held, fetched, calls, result, prev,
          opsLeft, faultsLeft, editsLeft, evalIn, evalOut, depOut,
          dry, sent, cli, files, remote, stage, reqIn, runs, worklogs>>

\* What no action changes, and what only init_plan changes.
setup == <<dry, cli, reqIn>>
planVars == <<remote, stage>>

(***************************************************************************)
(* Bounds of the model.                                                    *)
(***************************************************************************)
MaxPhases == 3
MaxTasks == 2
MaxOps == 2
MaxFaults == 1
MaxEdits == 1
MaxClock == 1
MaxEvalLen == 3
MaxDepPhases == 2

(***************************************************************************)
(* Program constants.                                                      *)
(***************************************************************************)
PHASE_ORDER == <<"EXPLORE", "PLAN", "CODE", "TEST", "FIX", "DOCUMENT">>

TASK_PERCENT_COMPLETE ==
    ("pending" :> 0) @@ ("in-progress" :> 50) @@ ("blocked" :> 50) @@ ("completed" :> 100)

BLOCKER_LABEL == "category6"

PhaseStates == {"pending", "in-progress", "blocked", "completed"}

\* A metadata key that is not set, and a task resource without "@odata.etag".
NoTime == -1
NoEtag == 0
NoPhase == "none"

(***************************************************************************)
(* str.upper on the names the model uses.                                  *)
(***************************************************************************)
Upper(s) ==
    CASE s = "explore" -> "EXPLORE"
      [] s = "plan" -> "PLAN"
      [] s = "code" -> "CODE"
      [] s = "test" -> "TEST"
      [] s = "fix" -> "FIX"
      [] s = "document" -> "DOCUMENT"
      [] s = "deploy" -> "DEPLOY"
      [] OTHER -> s

\* PHASE_ORDER.index(x), 0-based; only called on members.
IndexIn(x) == (CHOOSE i \in 1..Len(PHASE_ORDER) : PHASE_ORDER[i] = x) - 1

InPhaseOrder(x) == \E i \in 1..Len(PHASE_ORDER) : PHASE_ORDER[i] = x

\* _phase_index: the index of the upper-cased name; Invalid stands for the
\* ValueError it raises on a name outside PHASE_ORDER.
Invalid == -1
phase_index_case_sensitive(phase_name) ==
    IF ~InPhaseOrder(phase_name) THEN Invalid ELSE IndexIn(phase_name)

phase_index(phase_name) ==
    LET normalized == Upper(phase_name)
    IN  IF ~InPhaseOrder(normalized) THEN Invalid ELSE IndexIn(normalized)

(***************************************************************************)
(* Task snapshots: what get_task returns.  body = "empty" is the {} that   *)
(* PlannerClient._request returns for an empty response body.              *)
(***************************************************************************)
TaskIds == {"t1", "t2", "t3", "t4"}
PctValues == {0, 50, 100}

EmptyBody(t) ==
    [req |-> t, body |-> "empty", pct |-> 0, c1 |-> FALSE, c6 |-> FALSE, etag |-> NoEtag]

GetPercent_missing_is_full(task) == IF task.body = "empty" THEN 100 ELSE task.pct

\* task.get("percentComplete", 0)
GetPercent(task) == IF task.body = "empty" THEN 0 ELSE task.pct
\* task.get("appliedCategories", {}).get(BLOCKER_LABEL)
GetBlocker(task) == IF task.body = "empty" THEN FALSE ELSE task.c6
\* The title of a task of the board, which no operation writes.
Title(t) ==
    CASE t = "t1" -> "Title 1"
      [] t = "t2" -> "Title 2"
      [] t = "t3" -> "Title 3"
      [] OTHER -> "Title 4"

\* task.get("title", "")
GetTitle(task) == IF task.body = "empty" THEN "" ELSE Title(task.req)

\* task.get("@odata.etag")
GetEtag(task) == IF task.body = "empty" THEN NoEtag ELSE task.etag

Range(s) == {s[i] : i \in 1..Len(s)}

evaluate_phase_state_completion_first(tasks) ==
    IF tasks = <<>> THEN "pending"
    ELSE IF \A i \in 1..Len(tasks) : GetPercent(tasks[i]) = 100 THEN "completed"
    ELSE IF \E i \in 1..Len(tasks) : GetBlocker(tasks[i]) THEN "blocked"
    ELSE IF \E i \in 1..Len(tasks) : GetPercent(tasks[i]) > 0 THEN "in-progress"
    ELSE "pending"

evaluate_phase_state_first_blocker(tasks) ==
    IF tasks = <<>> THEN "pending"
    ELSE IF GetBlocker(tasks[1]) THEN "blocked"
    ELSE IF \A i \in 1..Len(tasks) : GetPercent(tasks[i]) = 100 THEN "completed"
    ELSE IF \E i \in 1..Len(tasks) : GetPercent(tasks[i]) > 0 THEN "in-progress"
    ELSE "pending"

evaluate_phase_state_empty_completed(tasks) ==
    IF \E i \in 1..Len(tasks) : GetBlocker(tasks[i]) THEN "blocked"
    ELSE IF \A i \in 1..Len(tasks) : GetPercent(tasks[i]) = 100 THEN "completed"
    ELSE IF \E i \in 1..Len(tasks) : GetPercent(tasks[i]) > 0 THEN "in-progress"
    ELSE "pending"

evaluate_phase_state(tasks) ==
    IF tasks = <<>> THEN "pending"
    ELSE IF \E i \in 1..Len(tasks) : GetBlocker(tasks[i]) THEN "blocked"
    ELSE IF \A i \in 1..Len(tasks) : GetPercent(tasks[i]) = 100 THEN "completed"
    ELSE IF \E i \in 1..Len(tasks) : GetPercent(tasks[i]) > 0 THEN "in-progress"
    ELSE "pending"

(***************************************************************************)
(* The workflow document.  A phase is [id, name, state, deps, taskIds,     *)
(* bucketId, templates]; deps holds the phaseId of each entry of           *)
(* "dependencies", taskIds and bucketId are planner.taskIds and            *)
(* planner.bucketId, templates is taskTemplates, each template with its    *)
(* title and whether it has a checklist or a description.  metadata keys   *)
(* that are not set hold NoTime / NoPhase, planner keys that are not set   *)
(* or hold "" hold NoId / NoGroup.                                         *)
(***************************************************************************)
NoId == 0
NoGroup == "none"
NoPlanner == [planId |-> NoId, groupId |-> NoGroup]

NumPhases(workflow) == Len(workflow.phases)

\* phase_map = {phase["id"]: phase ...}: the last phase of an id wins.
PhaseMapHas(workflow, id) == \E i \in 1..NumPhases(workflow) : workflow.phases[i].id = id

PhaseMapName(workflow, id) ==
    LET last == CHOOSE i \in 1..NumPhases(workflow) :
                    /\ workflow.phases[i].id = id
                    /\ \A j \in (i + 1)..NumPhases(workflow) : workflow.phases[j].id # id
    IN  workflow.phases[last].name

NotEarlier_strict(dep_index, current_index) == dep_index > current_index

\* line 39: if dep_index >= current_index
NotEarlier(dep_index, current_index) == dep_index >= current_index

\* The issues of one phase's dependencies from the k-th on (lines 33-40).
RECURSIVE PhaseIssues(_, _, _)
PhaseIssues(workflow, i, k) ==
    LET phase == workflow.phases[i]
        current_index == phase_index(phase.name)
    IN  IF k > Len(phase.deps) THEN <<>>
        ELSE LET dep_id == phase.deps[k]
                 rest == PhaseIssues(workflow, i, k + 1)
             IN  IF ~PhaseMapHas(workflow, dep_id)
                 THEN <<[phase |-> phase.id, dep |-> dep_id, kind |-> "missing"]>> \o rest
                 ELSE IF NotEarlier(phase_index(PhaseMapName(workflow, dep_id)), current_index)
                 THEN <<[phase |-> phase.id, dep |-> dep_id, kind |-> "not-earlier"]>> \o rest
                 ELSE rest

RECURSIVE IssuesFrom(_, _)
IssuesFrom(workflow, i) ==
    IF i > NumPhases(workflow) THEN <<>>
    ELSE PhaseIssues(workflow, i, 1) \o IssuesFrom(workflow, i + 1)

\* _validate_dependencies: the issues, or the ValueError of _phase_index.  Every
\* phase's name is looked up (line 32), and a dependency's name (line 38) is the
\* name of a phase of the document, so the call raises exactly when some phase
\* has a name outside PHASE_ORDER.
validate_dependencies(workflow) ==
    IF \E i \in 1..NumPhases(workflow) : phase_index(workflow.phases[i].name) = Invalid
    THEN [raised |-> TRUE, issues |-> <<>>]
    ELSE [raised |-> FALSE, issues |-> IssuesFrom(workflow, 1)]

(***************************************************************************)
(* The board and the client calls.                                         *)
(***************************************************************************)
TaskSeq == <<"t1", "t2", "t3", "t4">>
Tasks == {TaskSeq[i] : i \in 1..MaxTasks}

\* GET /tasks/{id}: the resource with its current "@odata.etag".
Snapshot(b, t) ==
    [req |-> t, body |-> "task", pct |-> b[t].pct, c1 |-> b[t].c1, c6 |-> b[t].c6,
     etag |-> b[t].ver]

GetCall(t) ==
    [m |-> "get_task", t |-> t, etag |-> NoEtag, pct |-> 0, c1 |-> FALSE, c6 |-> FALSE]

UpdateCall(t, etag, pct, c1, c6) ==
    [m |-> "update_task", t |-> t, etag |-> etag, pct |-> pct, c1 |-> c1, c6 |-> c6]

Echoed_patch_only(method) == dry /\ method = "PATCH"

\* planner_client.py line 40: a non-GET call of a dry-run client returns an echo
\* of its method, path and payload and sends nothing.
Echoed(method) == dry /\ method # "GET"

\* The request of get_task (line 97) and of update_task (line 103); _headers
\* (lines 26-30) puts the etag it is given into If-Match.
GetRequest(t) == [method |-> "GET", path |-> "tasks", id |-> t, ifMatch |-> NoEtag]
PatchRequest_no_token(call) ==
    [method |-> "PATCH", path |-> "tasks", id |-> call.t, ifMatch |-> NoEtag]

PatchRequest(call) ==
    [method |-> "PATCH", path |-> "tasks", id |-> call.t, ifMatch |-> call.etag]

\* What the board answers to a request: "ok" (2xx with a body), "empty" (2xx
\* without one), "conflict" (the If-Match etag is stale) or "error" (any other
\* HTTP or connection error), and the "@odata.etag" of the body.
Reply(status, etag) == [status |-> status, etag |-> IF status = "ok" THEN etag ELSE NoEtag]

Send_retry_once(log, req, reply) ==
    LET exchange == [method |-> req.method, path |-> req.path, id |-> req.id,
                     ifMatch |-> req.ifMatch, status |-> reply.status,
                     etag |-> reply.etag]
    IN  IF Echoed(req.method) THEN log
        ELSE IF reply.status \in {"error", "conflict"} THEN log \o <<exchange, exchange>>
        ELSE Append(log, exchange)

\* lines 40-50: the requests sent once _request has handled this one, each with
\* the answer it met.
Send(log, req, reply) ==
    IF Echoed(req.method) THEN log
    ELSE Append(log, [method |-> req.method, path |-> req.path, id |-> req.id,
                      ifMatch |-> req.ifMatch, status |-> reply.status,
                      etag |-> reply.etag])

\* What a GET may answer: the resource, an empty body (planner_client.py line 60),
\* or an HTTP/connection error raised as PlannerError (lines 52-56).
GetOutcomes == {"ok"} \cup (IF faultsLeft > 0 THEN {"empty", "error"} ELSE {})
\* What a PATCH may answer besides the If-Match verdict of the board; an echoed
\* call meets no fault.
PatchOutcomes == {"ok"} \cup (IF faultsLeft > 0 /\ ~Echoed("PATCH") THEN {"error"} ELSE {})

Spend(outcome) == IF outcome = "ok" THEN faultsLeft ELSE faultsLeft - 1

GetAnswer(b, t, outcome) == IF outcome = "empty" THEN EmptyBody(t) ELSE Snapshot(b, t)

TaskIdsOf(workflow, i) == workflow.phases[i].taskIds

NoTask == [req |-> "none", body |-> "empty", pct |-> 0, c1 |-> FALSE, c6 |-> FALSE,
           etag |-> NoEtag]

NoResult == [kind |-> "none"]
NoRequest == [method |-> "none"]

Halt(st, e, d) == [st |-> st, err |-> e, doc |-> d, pi |-> 0, ti |-> 0]
At(d, i, k) == [st |-> "run", err |-> "none", doc |-> d, pi |-> i, ti |-> k]

(***************************************************************************)
(* sync_workflow (lines 100-108).                                          *)
(***************************************************************************)
SyncAssign_keep_when_empty(phase, tasks) ==
    IF tasks = <<>> THEN phase ELSE [phase EXCEPT !.state = evaluate_phase_state(tasks)]

\* line 104: phase["state"] = self.evaluate_phase_state(tasks)
SyncAssign(phase, tasks) == [phase EXCEPT !.state = evaluate_phase_state(tasks)]

SyncFinish_raise_on_issue(d, clock) ==
    LET d1 == [d EXCEPT !.metadata.lastSyncedAt = clock]
        v == validate_dependencies(d1)
    IN  IF v.raised \/ v.issues # <<>> THEN Halt("raised", "ValueError", d1)
        ELSE Halt("done", "none", [d1 EXCEPT !.metadata.dependencyIssues = v.issues])

\* lines 106-108: stamp lastSyncedAt, then validate; the ValueError of
\* _phase_index leaves the stamp and the phase states in the mapping.
SyncFinish(d, clock) ==
    LET d1 == [d EXCEPT !.metadata.lastSyncedAt = clock]
        v == validate_dependencies(d1)
    IN  IF v.raised THEN Halt("raised", "ValueError", d1)
        ELSE Halt("done", "none", [d1 EXCEPT !.metadata.dependencyIssues = v.issues])

SyncCall_push_back(t) == UpdateCall(t, NoEtag, 0, FALSE, FALSE)

\* line 103: the one client call of sync_workflow, get_task(task_id)
SyncCall(t) == GetCall(t)

\* The local run of sync_workflow from phase i, whose first k-1 tasks are
\* fetched (f[i]), up to its next get_task or to its end.
RECURSIVE SyncRun(_, _, _, _, _)
SyncRun(d, f, i, k, clock) ==
    IF i > NumPhases(d) THEN SyncFinish(d, clock)
    ELSE IF k > Len(TaskIdsOf(d, i))
         THEN SyncRun([d EXCEPT !.phases[i] = SyncAssign(@, f[i])], f, i + 1, 1, clock)
         ELSE At(d, i, k)

(***************************************************************************)
(* closeout_pack (lines 142-163), after its sync_workflow.                 *)
(***************************************************************************)
PhaseSummary_stored(synced) ==
    [i \in 1..NumPhases(synced) |->
        [phase |-> synced.phases[i].name,
         state |-> doc.phases[i].state,
         taskCount |-> Len(TaskIdsOf(synced, i))]]

\* lines 144-154: one entry per phase of the synced document.
PhaseSummary(synced) ==
    [i \in 1..NumPhases(synced) |->
        [phase |-> synced.phases[i].name,
         state |-> synced.phases[i].state,
         taskCount |-> Len(TaskIdsOf(synced, i))]]

AllCompleted_any(phase_summary) ==
    \E i \in 1..Len(phase_summary) : phase_summary[i].state = "completed"

\* line 162: all(item["state"] == "completed" for item in phase_summary)
AllCompleted(phase_summary) ==
    \A i \in 1..Len(phase_summary) : phase_summary[i].state = "completed"

CloseoutPack(synced) ==
    [kind |-> "closeout",
     dependencyIssues |-> synced.metadata.dependencyIssues,
     phaseSummary |-> PhaseSummary(synced),
     allPhasesCompleted |-> AllCompleted(PhaseSummary(synced))]

(***************************************************************************)
(* blocker_report (lines 120-140).                                         *)
(***************************************************************************)
BlockedTasks_all_fetched(tasks, k) ==
    [n \in 1..(Len(tasks) - k + 1) |->
        [id |-> tasks[n + k - 1].req, title |-> GetTitle(tasks[n + k - 1]),
         percentComplete |-> GetPercent(tasks[n + k - 1])]]

\* lines 124-128: the blocker-labelled tasks of a phase from the k-th on.
RECURSIVE BlockedTasks(_, _)
BlockedTasks(tasks, k) ==
    IF k > Len(tasks) THEN <<>>
    ELSE (IF GetBlocker(tasks[k])
          THEN <<[id |-> tasks[k].req, title |-> GetTitle(tasks[k]),
                  percentComplete |-> GetPercent(tasks[k])]>>
          ELSE <<>>) \o BlockedTasks(tasks, k + 1)

RECURSIVE BlockedPhases(_, _, _)
BlockedPhases(d, f, i) ==
    IF i > NumPhases(d) THEN <<>>
    ELSE LET blocked_tasks == BlockedTasks(f[i], 1)
         IN  (IF blocked_tasks # <<>>
              THEN <<[phaseId |-> d.phases[i].id, phase |-> d.phases[i].name,
                      blockedTasks |-> blocked_tasks]>>
              ELSE <<>>) \o BlockedPhases(d, f, i + 1)

BlockerReport(d, f) == [kind |-> "blocker", blockedPhases |-> BlockedPhases(d, f, 1)]

\* The position of blocker_report's next get_task from phase i, task k.
RECURSIVE ReportRun(_, _, _)
ReportRun(d, i, k) ==
    IF i > NumPhases(d) THEN Halt("done", "none", d)
    ELSE IF k > Len(TaskIdsOf(d, i)) THEN ReportRun(d, i + 1, 1)
         ELSE At(d, i, k)

(***************************************************************************)
(* advance_phase (lines 110-118) and _sync_phase_tasks (lines 55-64).      *)
(***************************************************************************)
PhaseStateFor_inclusive(idx, target_index) ==
    IF idx <= target_index THEN "completed" ELSE "pending"

\* line 114
PhaseStateFor(idx, target_index) ==
    IF idx < target_index THEN "completed"
    ELSE IF idx = target_index THEN "in-progress"
    ELSE "pending"

AdvanceStamp_touch_synced(metadata, clock, phase_name) ==
    [metadata EXCEPT !.advancedAt = clock, !.lastSyncedAt = clock,
                     !.activePhase = Upper(phase_name)]

\* lines 116-117
AdvanceStamp(metadata, clock, phase_name) ==
    [metadata EXCEPT !.advancedAt = clock, !.activePhase = Upper(phase_name)]

\* The local run of advance_phase on entering phase i: its name's index (a
\* ValueError on a name outside PHASE_ORDER), its new state, and on to the first
\* phase that has a task to push, or to the stamps of lines 116-117.
RECURSIVE AdvanceEnter(_, _, _, _)
AdvanceEnter(d, i, phase_name, clock) ==
    IF i > NumPhases(d)
    THEN Halt("done", "none", [d EXCEPT !.metadata = AdvanceStamp(@, clock, phase_name)])
    ELSE LET idx == phase_index(d.phases[i].name)
             d2 == [d EXCEPT !.phases[i].state = PhaseStateFor(idx, phase_index(phase_name))]
         IN  IF idx = Invalid THEN Halt("raised", "ValueError", d)
             ELSE IF TaskIdsOf(d, i) = <<>> THEN AdvanceEnter(d2, i + 1, phase_name, clock)
             ELSE At(d2, i, 1)

\* ... and after the k-1-th task of phase i.
AdvanceNext(d, i, k, phase_name, clock) ==
    IF k > Len(TaskIdsOf(d, i)) THEN AdvanceEnter(d, i + 1, phase_name, clock)
    ELSE At(d, i, k)

\* line 56
Desired(phase) == TASK_PERCENT_COMPLETE[phase.state]
\* line 63
BlockerFlag(phase) == phase.state = "blocked"

\* The answer to a PATCH: a fault, or the If-Match verdict of the board.
PatchStatus(outcome, current) ==
    IF outcome = "error" THEN "error" ELSE IF ~current THEN "conflict" ELSE "ok"

PushCall_blocker_only(phase, task) ==
    UpdateCall(task.req, GetEtag(task), Desired(phase), FALSE, BlockerFlag(phase))

PushCall_first_token(phase, task) ==
    UpdateCall(task.req, 1, Desired(phase), task.c1, BlockerFlag(phase))

\* lines 62-64: the update_task call for a task read with an etag.
PushCall(phase, task) ==
    UpdateCall(task.req, GetEtag(task), Desired(phase), task.c1, BlockerFlag(phase))

Current_unconditional(b, call) == call.etag # NoEtag

\* PATCH /tasks/{id} with If-Match (planner_client.py lines 26-30, 102-103): the
\* board applies it when the etag is the resource's current one.
Current(b, call) == call.etag = b[call.t].ver

Patched(b, call) ==
    [b EXCEPT ![call.t] = [pct |-> call.pct, c1 |-> call.c1, c6 |-> call.c6, ver |-> @.ver + 1]]

(***************************************************************************)
(* The operations, one action per board call.                              *)
(***************************************************************************)
Targets == {PHASE_ORDER[i] : i \in 1..MaxPhases} \cup {"plan", "DEPLOY"}

Missing_phase_only(kind, args) == kind = "advance" /\ ~args.phase

\* main() lines 68 and 74: the operation lacks an argument it requires.
Missing(kind, args) ==
    \/ kind = "init" /\ (~args.group \/ ~args.title)
    \/ kind = "advance" /\ ~args.phase

NoFetch(d) == [i \in 1..NumPhases(d) |-> <<>>]

Land(r) ==
    /\ doc' = r.doc
    /\ pc' = r.st
    /\ err' = r.err
    /\ pos' = [pi |-> r.pi, ti |-> r.ti]

Raise_caught(e) ==
    /\ pc' = "done"
    /\ err' = "none"
    /\ pos' = [pi |-> 0, ti |-> 0]
    /\ UNCHANGED doc

Raise_and_stamp(e) ==
    /\ pc' = "raised"
    /\ err' = e
    /\ pos' = [pi |-> 0, ti |-> 0]
    /\ doc' = [doc EXCEPT !.metadata = AdvanceStamp(@, now, op.target)]

\* An exception leaves the operation: nothing after the failing line runs.
Raise(e) ==
    /\ pc' = "raised"
    /\ err' = e
    /\ pos' = [pi |-> 0, ti |-> 0]
    /\ UNCHANGED doc

\* main() lines 82-83: the result of a returned operation, the document or the
\* report, is written to the --output path, or over the workflow file when no
\* --output is given; an operation that raises leaves main() before the write.
Payload == IF op.kind \in {"blocker", "closeout"} THEN result ELSE doc

OutputPath(args) == IF args.output THEN "output" ELSE "workflow"

Save_on_exit ==
    files' = IF cli.on /\ pc' \in {"done", "raised"}
             THEN [files EXCEPT ![OutputPath(cli)] = Payload']
             ELSE files

Save ==
    files' = IF cli.on /\ pc' = "done"
             THEN [files EXCEPT ![OutputPath(cli)] = Payload']
             ELSE files

\* The time that passed since the previous operation, as utc_now_iso will see it
\* (the first operation runs at time 0).
Elapsed == IF pc = "idle" \/ now >= MaxClock THEN {0} ELSE {0, 1}

Begin(kind, target) ==
    /\ pc # "run"
    /\ opsLeft > 0
    /\ opsLeft' = opsLeft - 1
    /\ op' = [kind |-> kind, target |-> target]
    /\ prev' = [kind |-> op.kind, target |-> op.target, pc |-> pc, doc |-> doc]
    /\ calls' = <<>>
    /\ fetched' = NoFetch(doc)
    /\ held' = NoTask
    /\ sent' = <<>>
    /\ \E dt \in Elapsed : now' = now + dt
    /\ UNCHANGED <<board, faultsLeft, editsLeft, evalIn, runs, worklogs, evalOut, depOut, setup, remote>>

Return(kind, r, f) ==
    IF r.st # "done" THEN NoResult
    ELSE IF kind = "closeout" THEN CloseoutPack(r.doc)
    ELSE IF kind = "blocker" THEN BlockerReport(r.doc, f)
    ELSE NoResult

StartSync ==
    /\ Begin("sync", "none")
    /\ LET r == SyncRun(doc, NoFetch(doc), 1, 1, now')
       IN  Land(r) /\ result' = Return("sync", r, NoFetch(doc))
    /\ UNCHANGED stage
    /\ Save

StartCloseout ==
    /\ Begin("closeout", "none")
    /\ LET r == SyncRun(doc, NoFetch(doc), 1, 1, now')
       IN  Land(r) /\ result' = Return("closeout", r, NoFetch(doc))
    /\ UNCHANGED stage
    /\ Save

StartBlocker ==
    /\ Begin("blocker", "none")
    /\ LET r == ReportRun(doc, 1, 1)
       IN  Land(r) /\ result' = Return("blocker", r, NoFetch(doc))
    /\ UNCHANGED stage
    /\ Save

\* main() lines 69 and 75: raise SystemExit(...), after the workflow file was
\* read and before the manager is called.
UsageExit ==
    \E kind \in {"init", "advance"} :
        /\ cli.on
        /\ Missing(kind, cli)
        /\ Begin(kind, "none")
        /\ result' = NoResult
        /\ Raise("SystemExit")
        /\ UNCHANGED stage
        /\ Save

StartAdvance ==
    \E phase_name \in Targets :
        /\ ~Missing("advance", cli)
        /\ Begin("advance", phase_name)
        /\ result' = NoResult
        /\ IF phase_index(phase_name) = Invalid
           THEN Raise("ValueError")
           ELSE Land(AdvanceEnter(doc, 1, phase_name, now'))
        /\ UNCHANGED stage
        /\ Save

Running(kinds) == pc = "run" /\ op.kind \in kinds

NextTask == TaskIdsOf(doc, pos.pi)[pos.ti]

\* sync_workflow line 103 (also inside closeout_pack, line 143).
SyncGetTask ==
    /\ Running({"sync", "closeout"})
    /\ \E outcome \in GetOutcomes :
        /\ faultsLeft' = Spend(outcome)
        /\ calls' = Append(calls, SyncCall(NextTask))
        /\ sent' = Send(sent, GetRequest(NextTask), Reply(outcome, board[NextTask].ver))
        /\ IF outcome = "error"
           THEN Raise("PlannerError") /\ UNCHANGED fetched /\ result' = NoResult
           ELSE LET f == [fetched EXCEPT ![pos.pi] = Append(@, GetAnswer(board, NextTask, outcome))]
                    r == SyncRun(doc, f, pos.pi, pos.ti + 1, now)
                IN  Land(r) /\ fetched' = f /\ result' = Return(op.kind, r, f)
    /\ UNCHANGED <<board, now, op, held, prev, opsLeft, editsLeft, evalIn, runs, worklogs, evalOut, depOut,
                   setup, planVars>>
    /\ Save

\* blocker_report line 126.
ReportGetTask ==
    /\ Running({"blocker"})
    /\ \E outcome \in GetOutcomes :
        /\ faultsLeft' = Spend(outcome)
        /\ calls' = Append(calls, GetCall(NextTask))
        /\ sent' = Send(sent, GetRequest(NextTask), Reply(outcome, board[NextTask].ver))
        /\ IF outcome = "error"
           THEN Raise("PlannerError") /\ UNCHANGED fetched /\ result' = NoResult
           ELSE LET f == [fetched EXCEPT ![pos.pi] = Append(@, GetAnswer(board, NextTask, outcome))]
                    r == ReportRun(doc, pos.pi, pos.ti + 1)
                IN  Land(r) /\ fetched' = f /\ result' = Return("blocker", r, f)
    /\ UNCHANGED <<board, now, op, held, prev, opsLeft, editsLeft, evalIn, runs, worklogs, evalOut, depOut,
                   setup, planVars>>
    /\ Save

\* _sync_phase_tasks lines 58-61: get_task, and `continue` on a task without etag.
AdvanceGetTask ==
    /\ Running({"advance"})
    /\ held = NoTask
    /\ \E outcome \in GetOutcomes :
        /\ faultsLeft' = Spend(outcome)
        /\ calls' = Append(calls, GetCall(NextTask))
        /\ sent' = Send(sent, GetRequest(NextTask), Reply(outcome, board[NextTask].ver))
        /\ LET task == GetAnswer(board, NextTask, outcome)
           IN  IF outcome = "error"
               THEN Raise("PlannerError") /\ UNCHANGED <<fetched, held>>
               ELSE /\ fetched' = [fetched EXCEPT ![pos.pi] = Append(@, task)]
                    /\ IF GetEtag(task) = NoEtag
                       THEN Land(AdvanceNext(doc, pos.pi, pos.ti + 1, op.target, now))
                            /\ UNCHANGED held
                       ELSE held' = task /\ UNCHANGED <<doc, pc, err, pos>>
    /\ UNCHANGED <<board, now, op, result, prev, opsLeft, editsLeft, evalIn, runs, worklogs, evalOut, depOut,
                   setup, planVars>>
    /\ Save

\* _sync_phase_tasks lines 62-64: update_task with the etag just read; a fault or
\* a stale etag raises PlannerError and the board keeps the resource.  A dry-run
\* client sends nothing and returns its echo, which the loop ignores.
AdvanceUpdateTask ==
    /\ Running({"advance"})
    /\ held # NoTask
    /\ \E outcome \in PatchOutcomes :
        LET call == PushCall(doc.phases[pos.pi], held)
        IN  /\ faultsLeft' = Spend(outcome)
            /\ calls' = Append(calls, call)
            /\ sent' = Send(sent, PatchRequest(call),
                          Reply(PatchStatus(outcome, Current(board, call)), NoEtag))
            /\ held' = NoTask
            /\ IF Echoed("PATCH")
               THEN /\ UNCHANGED board
                    /\ Land(AdvanceNext(doc, pos.pi, pos.ti + 1, op.target, now))
               ELSE IF outcome = "error" \/ ~Current(board, call)
               THEN Raise("PlannerError") /\ UNCHANGED board
               ELSE /\ board' = Patched(board, call)
                    /\ Land(AdvanceNext(doc, pos.pi, pos.ti + 1, op.target, now))
    /\ UNCHANGED <<now, op, fetched, result, prev, opsLeft, editsLeft, evalIn, runs, worklogs, evalOut, depOut,
                   setup, planVars>>
    /\ Save

(***************************************************************************)
(* init_plan (lines 66-98).  The board numbers the plans and the buckets   *)
(* it creates from 1 and names the tasks it creates from CreatedIdSeq.     *)
(***************************************************************************)
CreatedIdSeq == <<"n1", "n2", "n3", "n4", "n5", "n6", "n7", "n8">>

\* The arguments main() passes from --group-id and --plan-title.
GroupId == "g1"
PlanTitle == "Plan"

InitCall(m, t, etag) ==
    [m |-> m, t |-> t, etag |-> etag, pct |-> 0, c1 |-> FALSE, c6 |-> FALSE]

PostRequest(path) == [method |-> "POST", path |-> path, id |-> "none", ifMatch |-> NoEtag]
DetailsGetRequest(t) == [method |-> "GET", path |-> "details", id |-> t, ifMatch |-> NoEtag]
DetailsPatchRequest(t, etag) ==
    [method |-> "PATCH", path |-> "details", id |-> t, ifMatch |-> etag]

\* What a POST may answer: the created entity, an empty body, or an error; an
\* echoed call meets no fault.
PostOutcomes ==
    IF Echoed("POST") THEN {"echo"}
    ELSE {"ok"} \cup (IF faultsLeft > 0 THEN {"empty", "error"} ELSE {})

\* The board serves a POST that did not fail, whatever body it answers with.
Served(outcome) == outcome \in {"ok", "empty"}

InitGoto(stg, i, k) == [st |-> "run", stage |-> stg, pi |-> i, ti |-> k]
InitDone == [st |-> "done", stage |-> "none", pi |-> 0, ti |-> 0]

InitLand(d, g) ==
    /\ doc' = d
    /\ pc' = g.st
    /\ err' = "none"
    /\ pos' = [pi |-> g.pi, ti |-> g.ti]
    /\ stage' = g.stage

InitRaise(e) == Raise(e) /\ stage' = "none"

\* line 72: the next phase's create_bucket, or line 98 after the last phase.
InitNextPhase(d, i) ==
    IF i + 1 <= NumPhases(d) THEN InitGoto("bucket", i + 1, 0) ELSE InitDone

\* line 78: the next template's create_task, or on to the next phase.
InitNextTemplate(d, i, k) ==
    IF k + 1 <= Len(d.phases[i].templates) THEN InitGoto("task", i, k + 1)
    ELSE InitNextPhase(d, i)

NewId_first(outcome, created) == IF outcome = "ok" THEN 1 ELSE NoId

\* plan.get("id", ""), bucket.get("id", ""): the id of the entity just created.
NewId(outcome, created) == IF outcome = "ok" THEN Len(created) + 1 ELSE NoId

StartInit ==
    /\ ~Missing("init", cli)
    /\ Begin("init", "none")
    /\ pc' = "run"
    /\ err' = "none"
    /\ pos' = [pi |-> 0, ti |-> 0]
    /\ stage' = "plan"
    /\ result' = NoResult
    /\ UNCHANGED doc
    /\ Save

\* lines 67-70: create_plan and the plan's binding.
InitCreatePlan ==
    /\ Running({"init"})
    /\ stage = "plan"
    /\ \E outcome \in PostOutcomes :
        /\ faultsLeft' = Spend(IF outcome = "echo" THEN "ok" ELSE outcome)
        /\ calls' = Append(calls, InitCall("create_plan", "none", NoEtag))
        /\ sent' = Send(sent, PostRequest("plans"), Reply(outcome, NoEtag))
        /\ remote' = IF Served(outcome)
                     THEN [remote EXCEPT !.plans = Append(@, [group |-> GroupId, title |-> PlanTitle])]
                     ELSE remote
        /\ IF outcome = "error"
           THEN InitRaise("PlannerError")
           ELSE LET plan_id == NewId(outcome, remote.plans)
                    d == [doc EXCEPT !.planner = [planId |-> plan_id, groupId |-> GroupId]]
                IN  InitLand(d, InitNextPhase(d, 0))
    /\ UNCHANGED <<board, now, op, held, fetched, result, prev, opsLeft, editsLeft,
                   evalIn, runs, worklogs, evalOut, depOut, setup>>
    /\ Save

\* lines 73-76: create_bucket for the phase, its binding, and its empty taskIds.
InitCreateBucket ==
    /\ Running({"init"})
    /\ stage = "bucket"
    /\ \E outcome \in PostOutcomes :
        /\ faultsLeft' = Spend(IF outcome = "echo" THEN "ok" ELSE outcome)
        /\ calls' = Append(calls, InitCall("create_bucket", "none", NoEtag))
        /\ sent' = Send(sent, PostRequest("buckets"), Reply(outcome, NoEtag))
        /\ remote' = IF Served(outcome)
                     THEN [remote EXCEPT !.buckets =
                              Append(@, [planId |-> doc.planner.planId,
                                         name |-> doc.phases[pos.pi].name,
                                         hint |-> pos.pi])]
                     ELSE remote
        /\ IF outcome = "error"
           THEN InitRaise("PlannerError")
           ELSE LET bucket_id == NewId(outcome, remote.buckets)
                    d == [doc EXCEPT !.phases[pos.pi].bucketId = bucket_id,
                                     !.phases[pos.pi].taskIds = <<>>]
                IN  InitLand(d, InitNextTemplate(d, pos.pi, 0))
    /\ UNCHANGED <<board, now, op, held, fetched, result, prev, opsLeft, editsLeft,
                   evalIn, runs, worklogs, evalOut, depOut, setup>>
    /\ Save

\* lines 79-83: create_task from the template; `continue` on a task without id.
InitCreateTask ==
    /\ Running({"init"})
    /\ stage = "task"
    /\ Len(remote.tasks) < Len(CreatedIdSeq)
    /\ \E outcome \in PostOutcomes :
        /\ faultsLeft' = Spend(IF outcome = "echo" THEN "ok" ELSE outcome)
        /\ calls' = Append(calls, InitCall("create_task", "none", NoEtag))
        /\ sent' = Send(sent, PostRequest("tasks"), Reply(outcome, NoEtag))
        /\ remote' = IF Served(outcome)
                     THEN [remote EXCEPT !.tasks =
                              Append(@, [id |-> CreatedIdSeq[Len(remote.tasks) + 1],
                                         planId |-> doc.planner.planId,
                                         bucketId |-> doc.phases[pos.pi].bucketId,
                                         title |-> doc.phases[pos.pi].templates[pos.ti].title,
                                         detailed |-> FALSE,
                                         ver |-> 1])]
                     ELSE remote
        /\ IF outcome = "error"
           THEN InitRaise("PlannerError")
           ELSE IF outcome = "ok"
           THEN InitLand([doc EXCEPT !.phases[pos.pi].taskIds =
                              Append(@, CreatedIdSeq[Len(remote.tasks) + 1])],
                         InitGoto("details", pos.pi, pos.ti))
           ELSE InitLand(doc, InitNextTemplate(doc, pos.pi, pos.ti))
    /\ UNCHANGED <<board, now, op, held, fetched, result, prev, opsLeft, editsLeft,
                   evalIn, runs, worklogs, evalOut, depOut, setup>>
    /\ Save

\* The task init_plan has just created and bound.
NewTask == doc.phases[pos.pi].taskIds[Len(doc.phases[pos.pi].taskIds)]

CreatedAt(t) == CHOOSE n \in 1..Len(remote.tasks) : remote.tasks[n].id = t

\* line 86: task_tpl.get("checklist") or task_tpl.get("description")
HasDetails(task_tpl) == task_tpl.hasDetails

\* lines 84-86: get_task_details; without an etag, or for a template without
\* checklist and description, there is no update.
InitGetDetails ==
    /\ Running({"init"})
    /\ stage = "details"
    /\ \E outcome \in GetOutcomes :
        /\ faultsLeft' = Spend(outcome)
        /\ calls' = Append(calls, InitCall("get_task_details", NewTask, NoEtag))
        /\ sent' = Send(sent, DetailsGetRequest(NewTask),
                      Reply(outcome, remote.tasks[CreatedAt(NewTask)].ver))
        /\ IF outcome = "error"
           THEN InitRaise("PlannerError") /\ UNCHANGED held
           ELSE LET details_etag == IF outcome = "empty" THEN NoEtag
                                    ELSE remote.tasks[CreatedAt(NewTask)].ver
                IN  IF details_etag # NoEtag /\ HasDetails(doc.phases[pos.pi].templates[pos.ti])
                    THEN /\ held' = [NoTask EXCEPT !.req = NewTask, !.etag = details_etag]
                         /\ InitLand(doc, InitGoto("update", pos.pi, pos.ti))
                    ELSE /\ UNCHANGED held
                         /\ InitLand(doc, InitNextTemplate(doc, pos.pi, pos.ti))
    /\ UNCHANGED <<board, now, op, fetched, result, prev, opsLeft, editsLeft,
                   evalIn, runs, worklogs, evalOut, depOut, setup, remote>>
    /\ Save

\* PATCH /tasks/{id}/details with If-Match: the etag is the resource's current one.
DetailsCurrent(t, etag) == etag = remote.tasks[CreatedAt(t)].ver

\* lines 87-96: update_task_details with the etag just read.
InitUpdateDetails ==
    /\ Running({"init"})
    /\ stage = "update"
    /\ \E outcome \in PatchOutcomes :
        /\ faultsLeft' = Spend(outcome)
        /\ calls' = Append(calls, InitCall("update_task_details", held.req, held.etag))
        /\ sent' = Send(sent, DetailsPatchRequest(held.req, held.etag),
                      Reply(PatchStatus(outcome, DetailsCurrent(held.req, held.etag)), NoEtag))
        /\ held' = NoTask
        /\ IF Echoed("PATCH")
           THEN UNCHANGED remote /\ InitLand(doc, InitNextTemplate(doc, pos.pi, pos.ti))
           ELSE IF outcome = "error" \/ ~DetailsCurrent(held.req, held.etag)
           THEN InitRaise("PlannerError") /\ UNCHANGED remote
           ELSE /\ remote' = [remote EXCEPT !.tasks[CreatedAt(held.req)].detailed = TRUE,
                                            !.tasks[CreatedAt(held.req)].ver = @ + 1]
                /\ InitLand(doc, InitNextTemplate(doc, pos.pi, pos.ti))
    /\ UNCHANGED <<board, now, op, fetched, result, prev, opsLeft, editsLeft,
                   evalIn, runs, worklogs, evalOut, depOut, setup>>
    /\ Save

(***************************************************************************)
(* The environment: other editors of the board.                            *)
(***************************************************************************)
\* Another editor changes a task's percentComplete or toggles its blocker label,
\* during an operation or after it; the board gives the resource a new etag.
\* (An edit made before the first operation is an initial state of the board.)
ExternalEdit ==
    /\ pc # "idle"
    /\ editsLeft > 0
    /\ editsLeft' = editsLeft - 1
    /\ \E t \in Tasks :
        \/ \E v \in PctValues \ {board[t].pct} :
              board' = [board EXCEPT ![t].pct = v, ![t].ver = @ + 1]
        \/ board' = [board EXCEPT ![t].c6 = ~@, ![t].ver = @ + 1]
    /\ UNCHANGED <<doc, now, op, pc, err, pos, held, fetched, calls, result, prev,
                   opsLeft, faultsLeft, evalIn, runs, worklogs, evalOut, depOut, setup, sent, files, planVars>>

(***************************************************************************)
(* Initial states: the workflow documents and boards an operation is run   *)
(* on.                                                                     *)
(***************************************************************************)
PhaseIdSeq == <<"p1", "p2", "p3", "p4", "p5">>

\* The tasks bound to phase i, in id order.
BoundTo(binding, i) == SelectSeq(SubSeq(TaskSeq, 1, MaxTasks), LAMBDA t : binding[t] = i)

NoMetadata ==
    [lastSyncedAt |-> NoTime, advancedAt |-> NoTime, activePhase |-> NoPhase,
     dependencyIssues |-> <<>>]

MkDoc(names, deps, binding, state) ==
    [phases |-> [i \in 1..Len(names) |->
                    [id |-> PhaseIdSeq[i], name |-> names[i], state |-> state,
                     deps |-> deps[i], taskIds |-> BoundTo(binding, i),
                     bucketId |-> NoId, templates |-> <<>>]],
     metadata |-> NoMetadata,
     planner |-> NoPlanner]

\* Each phase depends on the phase before it in the document.
ChainDeps(n) == [i \in 1..n |-> IF i = 1 THEN <<>> ELSE <<PhaseIdSeq[i - 1]>>]

BoardTasks == [pct : PctValues, c1 : BOOLEAN, c6 : BOOLEAN, ver : {1}]

NoOp == [kind |-> "none", target |-> "none"]

\* A board on which init_plan has created nothing, and files never written.
NoRemote == [plans |-> <<>>, buckets |-> <<>>, tasks |-> <<>>]
NoFiles == [workflow |-> NoResult, output |-> NoResult]

\* No second invocation of main(), and no worklog processor.
NoRuns == <<>>
NoWorklogs == <<>>

\* The manager called without main(): the caller passes every argument.
NoCli == [on |-> FALSE, output |-> FALSE, phase |-> TRUE, group |-> TRUE, title |-> TRUE]

Machine(d, b, ops, faults, edits) ==
    /\ doc = d
    /\ board = b
    /\ now = 0
    /\ op = NoOp
    /\ pc = "idle"
    /\ err = "none"
    /\ pos = [pi |-> 0, ti |-> 0]
    /\ held = NoTask
    /\ fetched = NoFetch(d)
    /\ calls = <<>>
    /\ result = NoResult
    /\ prev = [kind |-> "none", target |-> "none", pc |-> "idle", doc |-> d]
    /\ opsLeft = ops
    /\ faultsLeft = faults
    /\ editsLeft = edits
    /\ sent = <<>>
    /\ remote = NoRemote
    /\ stage = "none"

\* The manager used as a library, with a client that is not in dry-run mode.
Library ==
    /\ dry = FALSE
    /\ cli = NoCli
    /\ files = NoFiles
    /\ reqIn = NoRequest

InitWith(d, b, ops, faults, edits) ==
    /\ Machine(d, b, ops, faults, edits)
    /\ Library
    /\ runs = NoRuns
    /\ worklogs = NoWorklogs
    /\ evalIn = <<>>
    /\ evalOut = "none"
    /\ depOut = NoResult

CanonicalNames(n) == SubSeq(PHASE_ORDER, 1, n)
\* The state stored in the document before an operation.
StoredStates == {"pending", "completed"}
DocNames == {PHASE_ORDER[i] : i \in 1..MaxPhases}
\* Two names of PHASE_ORDER and one outside it.
DepNames == {"EXPLORE", "PLAN", "DEPLOY"}

\* One operation on MaxPhases - 1 or MaxPhases phases in canonical order, the
\* tasks bound in every way, the board in every state.
Init ==
    \E n \in (MaxPhases - 1)..MaxPhases :
        \E binding \in [Tasks -> 1..n], b \in [Tasks -> BoardTasks], state \in StoredStates :
            /\ \A t \in Tasks : b[t].c1 = (t = "t1")
            /\ InitWith(MkDoc(CanonicalNames(n), ChainDeps(n), binding, state), b,
                        1, MaxFaults, MaxEdits)

Next ==
    \/ StartSync
    \/ StartCloseout
    \/ StartBlocker
    \/ StartAdvance
    \/ SyncGetTask
    \/ ReportGetTask
    \/ AdvanceGetTask
    \/ AdvanceUpdateTask
    \/ ExternalEdit

Spec == Init /\ [][Next]_vars

\* Every sequence of MaxPhases names: phases out of order and phases of one name.
NameSeqs == [1..MaxPhases -> DocNames]

\* Scenario A of the specification: EXPLORE's task at 100, PLAN's task blocked.
ScenarioBinding == [t \in Tasks |-> IF t = "t1" THEN 1 ELSE 2]
ScenarioBoard ==
    [t \in Tasks |-> IF t = "t1" THEN [pct |-> 100, c1 |-> TRUE, c6 |-> FALSE, ver |-> 1]
                     ELSE [pct |-> 0, c1 |-> FALSE, c6 |-> TRUE, ver |-> 1]]

\* Sequences of MaxOps operations on documents of every naming.
InitSeq ==
    \E names \in NameSeqs :
        InitWith(MkDoc(names, ChainDeps(MaxPhases), ScenarioBinding, "pending"), ScenarioBoard,
                 MaxOps, MaxFaults, MaxEdits)

SpecSeq == InitSeq /\ [][Next]_vars

\* One operation on documents whose phases are named EXPLORE, PLAN or DEPLOY,
\* a name outside PHASE_ORDER, in every combination.
InitNames ==
    \E names \in [1..MaxPhases -> DepNames] :
        InitWith(MkDoc(names, ChainDeps(MaxPhases), ScenarioBinding, "pending"), ScenarioBoard,
                 1, MaxFaults, MaxEdits)

SpecNames == InitNames /\ [][Next]_vars

(***************************************************************************)
(* One run of main() (orchestrate_planner.py lines 58-85) on a workflow    *)
(* file: any of the five operations, with and without each of --dry-run,   *)
(* --output, --phase, --group-id and --plan-title.  The document read from *)
(* the file has the three first phases bound as in Scenario A, EXPLORE     *)
(* with a task template that has a checklist and PLAN with one that has    *)
(* none.                                                                   *)
(***************************************************************************)
CliTemplates ==
    <<  <<[title |-> "Survey", hasDetails |-> TRUE]>>,
        <<[title |-> "Draft", hasDetails |-> FALSE]>>,
        <<>>  >>

CliDoc ==
    LET d == MkDoc(CanonicalNames(Len(CliTemplates)), ChainDeps(Len(CliTemplates)),
                   ScenarioBinding, "pending")
    IN  [d EXCEPT !.phases = [i \in 1..Len(CliTemplates) |->
                                 [d.phases[i] EXCEPT !.templates = CliTemplates[i]]]]

InitCli ==
    /\ Machine(CliDoc, ScenarioBoard, 1, MaxFaults, MaxEdits)
    /\ dry \in BOOLEAN
    /\ cli \in [on : {TRUE}, output : BOOLEAN, phase : BOOLEAN, group : BOOLEAN,
               title : BOOLEAN]
    /\ files = [workflow |-> CliDoc, output |-> NoResult]
    /\ reqIn = NoRequest
    /\ runs = NoRuns
    /\ worklogs = NoWorklogs
    /\ evalIn = <<>>
    /\ evalOut = "none"
    /\ depOut = NoResult

NextCli ==
    \/ UsageExit
    \/ StartInit
    \/ StartSync
    \/ StartCloseout
    \/ StartBlocker
    \/ StartAdvance
    \/ InitCreatePlan
    \/ InitCreateBucket
    \/ InitCreateTask
    \/ InitGetDetails
    \/ InitUpdateDetails
    \/ SyncGetTask
    \/ ReportGetTask
    \/ AdvanceGetTask
    \/ AdvanceUpdateTask
    \/ ExternalEdit

SpecCli == InitCli /\ [][NextCli]_vars

(***************************************************************************)
(* init_plan run MaxOps times on one document, by a client that is not in  *)
(* dry-run mode.  The document has up to MaxPlanPhases phases, no two of   *)
(* the same name, in every order, each with none, one or two task          *)
(* templates, and is bound to nothing yet.                                  *)
(***************************************************************************)
MaxPlanPhases == 2

TemplateLists ==
    {<<>>,
     <<[title |-> "Survey", hasDetails |-> TRUE]>>,
     <<[title |-> "Draft", hasDetails |-> FALSE], [title |-> "Survey", hasDetails |-> TRUE]>>}

PlanDoc(names, templates) ==
    LET d == MkDoc(names, ChainDeps(Len(names)), [t \in Tasks |-> 0], "pending")
    IN  [d EXCEPT !.phases = [i \in 1..Len(names) |->
                                 [d.phases[i] EXCEPT !.templates = templates[i]]]]

InitPlan ==
    \E n \in 1..MaxPlanPhases :
        \E names \in [1..n -> DocNames], templates \in [1..n -> TemplateLists] :
            /\ \A i, j \in 1..n : names[i] = names[j] => i = j
            /\ InitWith(PlanDoc(names, templates), ScenarioBoard, MaxOps, MaxFaults, 0)

NextPlan ==
    \/ StartInit
    \/ InitCreatePlan
    \/ InitCreateBucket
    \/ InitCreateTask
    \/ InitGetDetails
    \/ InitUpdateDetails

SpecPlan == InitPlan /\ [][NextPlan]_vars

(***************************************************************************)
(* evaluate_phase_state on its own, on every list of up to MaxEvalLen      *)
(* snapshots.                                                              *)
(***************************************************************************)
EvalSnapshots ==
    {[req |-> "t1", body |-> "task", pct |-> p, c1 |-> FALSE, c6 |-> b, etag |-> 1] :
        p \in PctValues, b \in BOOLEAN} \cup {EmptyBody("t1")}

EvalLists == UNION {[1..n -> EvalSnapshots] : n \in 0..MaxEvalLen}

EmptyDoc == [phases |-> <<>>, metadata |-> NoMetadata, planner |-> NoPlanner]

InitEval ==
    /\ Machine(EmptyDoc, [t \in Tasks |-> [pct |-> 0, c1 |-> FALSE, c6 |-> FALSE, ver |-> 1]],
               0, 0, 0)
    /\ Library
    /\ runs = NoRuns
    /\ worklogs = NoWorklogs
    /\ evalIn \in EvalLists
    /\ evalOut = "none"
    /\ depOut = NoResult

Evaluate ==
    /\ evalOut = "none"
    /\ evalOut' = evaluate_phase_state(evalIn)
    /\ UNCHANGED <<doc, board, now, op, pc, err, pos, held, fetched, calls, result, prev,
                   opsLeft, faultsLeft, editsLeft, evalIn, runs, worklogs, depOut,
                   setup, sent, files, planVars>>

SpecEval == InitEval /\ [][Evaluate]_vars

(***************************************************************************)
(* _validate_dependencies on its own, on documents of up to MaxDepPhases   *)
(* phases, each with up to MaxDeps dependencies that name any phase of the *)
(* document, itself included, or a phase that is not in it.                *)
(***************************************************************************)
MaxDeps == 1

DepIds(n) == {PhaseIdSeq[i] : i \in 1..n} \cup {"px"}
DepLists(n) == UNION {[1..m -> DepIds(n)] : m \in 0..MaxDeps}

DepDoc(names, deps) ==
    [phases |-> [i \in 1..Len(names) |->
                    [id |-> PhaseIdSeq[i], name |-> names[i], state |-> "pending",
                     deps |-> deps[i], taskIds |-> <<>>,
                     bucketId |-> NoId, templates |-> <<>>]],
     metadata |-> NoMetadata,
     planner |-> NoPlanner]

InitDeps ==
    \E n \in 1..MaxDepPhases :
        \E names \in [1..n -> DepNames], deps \in [1..n -> DepLists(n)] :
            /\ Machine(DepDoc(names, deps),
                       [t \in Tasks |-> [pct |-> 0, c1 |-> FALSE, c6 |-> FALSE, ver |-> 1]],
                       0, 0, 0)
            /\ Library
            /\ runs = NoRuns
            /\ worklogs = NoWorklogs
            /\ evalIn = <<>>
            /\ evalOut = "none"
            /\ depOut = NoResult

Validate ==
    /\ depOut = NoResult
    /\ depOut' = validate_dependencies(doc)
    /\ UNCHANGED <<doc, board, now, op, pc, err, pos, held, fetched, calls, result, prev,
                   opsLeft, faultsLeft, editsLeft, evalIn, runs, worklogs, evalOut,
                   setup, sent, files, planVars>>

SpecDeps == InitDeps /\ [][Validate]_vars

(***************************************************************************)
(* PlannerClient._request on its own: one request of each method, in       *)
(* either mode, against each answer the transport can give.                *)
(***************************************************************************)
NoStatus == 0

\* What urlopen and resp.read() can do with a request that was sent: give a
\* response with a status line and a body ("http"; a status outside 2xx is
\* raised by urlopen as HTTPError), fail to reach the server ("url": URLError),
\* or lose the connection after the request went out ("socket": the timeout of
\* timeout_s or a reset while the response is awaited or read, an OSError that
\* is neither HTTPError nor URLError).
Responses ==
    [kind : {"http"}, code : {200, 204, 404, 412, 500}, body : {"", "json"}]
        \cup [kind : {"url", "socket"}, code : {NoStatus}, body : {""}]

Success(response) == response.kind = "http" /\ response.code \div 100 = 2

\* lines 40-60: the outcome of _request: the mapping it returns or the
\* exception that leaves it, with the status and detail the exception carries.
request(method, response) ==
    IF Echoed(method)
    THEN [kind |-> "returned", exc |-> "none", code |-> NoStatus, body |-> "echo"]
    ELSE IF Success(response)
    THEN [kind |-> "returned", exc |-> "none", code |-> response.code,
          body |-> IF response.body = "" THEN "{}" ELSE response.body]
    ELSE IF response.kind = "http"
    THEN [kind |-> "raised", exc |-> "PlannerError", code |-> response.code,
          body |-> response.body]
    ELSE IF response.kind = "url"
    THEN [kind |-> "raised", exc |-> "PlannerError", code |-> NoStatus, body |-> "URLError"]
    ELSE [kind |-> "raised", exc |-> "OSError", code |-> NoStatus, body |-> ""]

InitRequest ==
    /\ Machine(EmptyDoc, [t \in Tasks |-> [pct |-> 0, c1 |-> FALSE, c6 |-> FALSE, ver |-> 1]],
               0, 0, 0)
    /\ dry \in BOOLEAN
    /\ cli = NoCli
    /\ files = NoFiles
    /\ reqIn \in [method : {"GET", "POST", "PATCH"}, response : Responses]
    /\ runs = NoRuns
    /\ worklogs = NoWorklogs
    /\ evalIn = <<>>
    /\ evalOut = "none"
    /\ depOut = NoResult

Request ==
    /\ pc = "idle"
    /\ reqIn # NoRequest
    /\ result' = request(reqIn.method, reqIn.response)
    /\ pc' = IF result'.kind = "raised" THEN "raised" ELSE "done"
    /\ err' = result'.exc
    /\ sent' = IF Echoed(reqIn.method) THEN sent
               ELSE Append(sent, [method |-> reqIn.method, path |-> "/", id |-> "none",
                                  ifMatch |-> NoEtag,
                                  status |-> reqIn.response.kind, etag |-> NoEtag])
    /\ UNCHANGED <<doc, board, now, op, pos, held, fetched, calls, prev,
                   opsLeft, faultsLeft, editsLeft, evalIn, runs, worklogs, evalOut, depOut,
                   setup, files, planVars>>

SpecRequest == InitRequest /\ [][Request]_vars

(***************************************************************************)
(* Two invocations of main() side by side on one workflow file (lines      *)
(* 58-85).  Each reads the file when it starts (line 61) and writes its    *)
(* result when its operation has returned (lines 82-83); nothing orders    *)
(* the reads and writes of one invocation against those of the other.  The *)
(* phases of the document have no tasks, so that an operation makes no     *)
(* board call between its read and its write.                              *)
(***************************************************************************)
Invocations == {"a", "b"}

NotStarted ==
    [pc |-> "start", kind |-> "none", target |-> "none", output |-> FALSE,
     read |-> NoResult, wrote |-> NoResult]

RaceDoc ==
    LET d == MkDoc(CanonicalNames(MaxPhases), ChainDeps(MaxPhases), ScenarioBinding, "pending")
    IN  [d EXCEPT !.phases = [i \in 1..MaxPhases |-> [d.phases[i] EXCEPT !.taskIds = <<>>]]]

\* lines 67-80: the operation on the mapping that was read.  A file that holds
\* a report has no "phases" key.
Operate(kind, target, d, clock) ==
    IF kind = "advance" /\ phase_index(target) = Invalid THEN Halt("raised", "ValueError", d)
    ELSE IF "phases" \notin DOMAIN d THEN Halt("raised", "KeyError", d)
    ELSE IF kind = "advance" THEN AdvanceEnter(d, 1, target, clock)
    ELSE IF kind = "blocker" THEN ReportRun(d, 1, 1)
    ELSE SyncRun(d, NoFetch(d), 1, 1, clock)

ResultOf(kind, r) ==
    IF kind \in {"blocker", "closeout"} THEN Return(kind, r, NoFetch(r.doc)) ELSE r.doc

WriteJson_create_only(fs, path, payload) ==
    IF fs[path] = NoResult THEN [fs EXCEPT ![path] = payload] ELSE fs

\* _write_json (lines 38-42): open(path, "w") and json.dump of the whole payload.
WriteJson(fs, path, payload) == [fs EXCEPT ![path] = payload]

\* main() lines 59-61.
LoadWorkflow(p) ==
    /\ runs.of[p].pc = "start"
    /\ \E kind \in {"sync", "advance", "blocker", "closeout"}, output \in BOOLEAN :
        \E target \in IF kind = "advance" THEN Targets ELSE {"none"} :
            runs' = [runs EXCEPT !.of[p] = [pc |-> "loaded", kind |-> kind, target |-> target,
                                            output |-> output, read |-> files.workflow,
                                            wrote |-> NoResult]]
    /\ UNCHANGED <<doc, board, now, op, pc, err, pos, held, fetched, calls, result, prev,
                   opsLeft, faultsLeft, editsLeft, evalIn, worklogs, evalOut, depOut,
                   setup, sent, files, planVars>>

\* main() lines 63-85.
RunAndWrite(p) ==
    /\ runs.of[p].pc = "loaded"
    /\ \E dt \in IF now >= MaxClock THEN {0} ELSE {0, 1} : now' = now + dt
    /\ LET run == runs.of[p]
           r == Operate(run.kind, run.target, run.read, now')
       IN  IF r.st = "done"
           THEN /\ files' = WriteJson(files, OutputPath(run), ResultOf(run.kind, r))
                /\ runs' = [runs EXCEPT !.of[p].pc = "written",
                                        !.of[p].wrote = ResultOf(run.kind, r),
                                        !.writes = Append(@, [by |-> p, path |-> OutputPath(run)])]
           ELSE /\ runs' = [runs EXCEPT !.of[p].pc = "raised"]
                /\ UNCHANGED files
    /\ UNCHANGED <<doc, board, op, pc, err, pos, held, fetched, calls, result, prev,
                   opsLeft, faultsLeft, editsLeft, evalIn, worklogs, evalOut, depOut,
                   setup, sent, planVars>>

InitRace ==
    /\ Machine(RaceDoc, ScenarioBoard, 0, 0, 0)
    /\ dry = FALSE
    /\ cli = NoCli
    /\ files = [workflow |-> RaceDoc, output |-> NoResult]
    /\ reqIn = NoRequest
    /\ runs = [of |-> [p \in Invocations |-> NotStarted], writes |-> <<>>]
    /\ worklogs = NoWorklogs
    /\ evalIn = <<>>
    /\ evalOut = "none"
    /\ depOut = NoResult

NextRace ==
    \/ \E p \in Invocations : LoadWorkflow(p)
    \/ \E p \in Invocations : RunAndWrite(p)

SpecRace == InitRace /\ [][NextRace]_vars

(***************************************************************************)
(* PendingWorklogProcessor (jira-orchestrator/lib/pending_worklog_         *)
(* processor.py).  The pending directory holds worklog files: what the     *)
(* time tracker queued (a mapping with or without an issue key and a       *)
(* time, and no retry_count yet) and files that are no JSON document.      *)
(* process_all runs again and again (run_continuous, lines 233-248); each  *)
(* run lists the pending files and calls process_worklog on each.          *)
(***************************************************************************)
max_retries == 3

WorklogNames == {"w1", "w2"}

\* What a pending file holds: text that json.load can parse or not, and the
\* mapping it parses to.
Queued ==
    {[parses |-> FALSE, data |-> [comment |-> "cut short"]],
     [parses |-> TRUE, data |-> [comment |-> "No issue key"]],
     [parses |-> TRUE, data |-> [issue_key |-> "PROJ-123", time_spent_seconds |-> 0]],
     [parses |-> TRUE, data |-> [issue_key |-> "PROJ-123", time_spent_seconds |-> 3600]]}

\* dict.get(key, default)
Get(data, key, default) == IF key \in DOMAIN data THEN data[key] ELSE default

\* dict[key] = value
Put(data, key, value) ==
    [k \in DOMAIN data \cup {key} |-> IF k = key THEN value ELSE data[k]]

\* _post_worklog_via_mcp (lines 125-181): True when the script ran and exited
\* with 0; False after writing a MANUAL_ marker file; False on an exception.
McpOutcomes == {"posted", "marker", "exception"}

Exhausted_after(retry_count) == retry_count > max_retries

\* line 110
Exhausted(retry_count) == retry_count >= max_retries

\* process_worklog (lines 68-123) on a file in the pending directory, with the
\* outcome of posting: the file afterwards, and what the call returns.
process_worklog(file, outcome, clock) ==
    IF ~file.parses THEN [file |-> file, returns |-> FALSE]
    ELSE IF Get(file.data, "issue_key", "") = "" \/ Get(file.data, "time_spent_seconds", 0) = 0
    THEN [file |-> [file EXCEPT !.dir = "failed"], returns |-> FALSE]
    ELSE LET tried == [file EXCEPT !.attempts = @ + 1]
             retry_count == Get(file.data, "retry_count", 0) + 1
         IN  IF outcome = "posted"
             THEN [file |-> [tried EXCEPT !.dir = "processed"], returns |-> TRUE]
             ELSE IF Exhausted(retry_count)
             THEN [file |-> [tried EXCEPT !.dir = "failed"], returns |-> FALSE]
             ELSE [file |-> [tried EXCEPT !.data = Put(Put(@, "retry_count", retry_count),
                                                       "last_retry", clock)],
                   returns |-> FALSE]

Pending == {w \in WorklogNames : worklogs.file[w].dir = "pending"}

\* process_all lines 207-210: the pending files, in the order of their
\* modification times, which is any order.
StartAll ==
    /\ worklogs # NoWorklogs
    /\ ~worklogs.busy
    /\ \E order \in [1..Cardinality(Pending) -> Pending] :
        /\ \A i, j \in DOMAIN order : i # j => order[i] # order[j]
        /\ worklogs' = [worklogs EXCEPT !.busy = TRUE, !.todo = order,
                                        !.results = [processed |-> 0, failed |-> 0,
                                                     remaining |-> 0]]
    /\ UNCHANGED <<doc, board, now, op, pc, err, pos, held, fetched, calls, result, prev,
                   opsLeft, faultsLeft, editsLeft, evalIn, runs, evalOut, depOut,
                   setup, sent, files, planVars>>

\* process_all lines 212-216: one turn of the loop.
ProcessNext ==
    /\ worklogs # NoWorklogs
    /\ worklogs.busy
    /\ worklogs.todo # <<>>
    /\ \E outcome \in McpOutcomes :
        LET w == Head(worklogs.todo)
            r == process_worklog(worklogs.file[w], outcome, now)
            posts == r.file.attempts > worklogs.file[w].attempts
        IN  worklogs' = [worklogs EXCEPT
                !.file[w] = r.file,
                !.todo = Tail(@),
                !.markers = IF posts /\ outcome = "marker" THEN @ + 1 ELSE @,
                !.results.processed = IF r.returns THEN @ + 1 ELSE @,
                !.results.remaining = IF r.returns THEN @ ELSE @ + 1]
    /\ UNCHANGED <<doc, board, now, op, pc, err, pos, held, fetched, calls, result, prev,
                   opsLeft, faultsLeft, editsLeft, evalIn, runs, evalOut, depOut,
                   setup, sent, files, planVars>>

\* process_all lines 218-221.
FinishAll ==
    /\ worklogs # NoWorklogs
    /\ worklogs.busy
    /\ worklogs.todo = <<>>
    /\ worklogs' = [worklogs EXCEPT
            !.busy = FALSE,
            !.results.failed = Cardinality({w \in WorklogNames : worklogs.file[w].dir = "failed"})]
    /\ UNCHANGED <<doc, board, now, op, pc, err, pos, held, fetched, calls, result, prev,
                   opsLeft, faultsLeft, editsLeft, evalIn, runs, evalOut, depOut,
                   setup, sent, files, planVars>>

InitWorklogs ==
    /\ Machine(EmptyDoc, ScenarioBoard, 0, 0, 0)
    /\ Library
    /\ runs = NoRuns
    /\ \E queued \in [WorklogNames -> Queued] :
        worklogs = [file |-> [w \in WorklogNames |->
                                 [dir |-> "pending", parses |-> queued[w].parses,
                                  data |-> queued[w].data, attempts |-> 0]],
                    todo |-> <<>>, busy |-> FALSE, markers |-> 0,
                    results |-> [processed |-> 0, failed |-> 0, remaining |-> 0]]
    /\ evalIn = <<>>
    /\ evalOut = "none"
    /\ depOut = NoResult

NextWorklogs ==
    \/ StartAll
    \/ ProcessNext
    \/ FinishAll

SpecWorklogs == InitWorklogs /\ [][NextWorklogs]_vars

\* run_continuous calls process_all for ever, and each call runs to its end.
FairWorklogs == SpecWorklogs /\ WF_vars(NextWorklogs)

(***************************************************************************)
(* Properties.                                                             *)
(***************************************************************************)
Returned(kind) == pc = "done" /\ op.kind = kind

ReqIds(tasks) == [k \in 1..Len(tasks) |-> tasks[k].req]

\* C1: whenever evaluate_phase_state is given a list in which at least one task
\* carries the blocker label, it returns "blocked", whatever the percentComplete
\* of that task and of the others.
C1_BlockerWins ==
    (evalOut # "none" /\ \E i \in 1..Len(evalIn) : evalIn[i].body = "task" /\ evalIn[i].c6)
        => evalOut = "blocked"

\* The blocked task and all its siblings are at 100.
C1_Witness ==
    /\ evalOut = "blocked"
    /\ Len(evalIn) >= 2
    /\ \A i \in 1..Len(evalIn) : evalIn[i].body = "task" /\ evalIn[i].pct = 100

\* C2: after advance_phase(doc, T) returns, every phase whose order-index is
\* below T's is "completed", every phase with T's index is "in-progress" and
\* every phase with a larger index is "pending".
C2_AdvanceStates ==
    Returned("advance") =>
        \A i \in 1..NumPhases(doc) :
            LET idx == IndexIn(doc.phases[i].name)
                target_index == IndexIn(Upper(op.target))
            IN  /\ idx < target_index => doc.phases[i].state = "completed"
                /\ idx = target_index => doc.phases[i].state = "in-progress"
                /\ idx > target_index => doc.phases[i].state = "pending"

\* An advance that left phases before, at and after the target, one of which was
\* stored as "blocked" before the call.
C2_Witness ==
    /\ Returned("advance")
    /\ \E i, j, k \in 1..NumPhases(doc) :
        /\ doc.phases[i].state = "completed"
        /\ doc.phases[j].state = "in-progress"
        /\ doc.phases[k].state = "pending"
        /\ prev.doc.phases[k].state = "blocked"

\* C3: after sync_workflow returns, the tasks fetched for a phase are exactly its
\* planner.taskIds, in order, and the phase's state is evaluate_phase_state of
\* those snapshots, whatever state the document stored before the call.
C3_SyncDerived ==
    Returned("sync") =>
        \A i \in 1..NumPhases(doc) :
            /\ ReqIds(fetched[i]) = TaskIdsOf(doc, i)
            /\ doc.phases[i].state = evaluate_phase_state(fetched[i])

\* A sync that replaced a stored "completed" by "pending" for a phase without
\* tasks and by "blocked" for a phase with a blocked task.
C3_Witness ==
    /\ Returned("sync")
    /\ \E i, j \in 1..NumPhases(doc) :
        /\ prev.doc.phases[i].state = "completed"
        /\ TaskIdsOf(doc, i) = <<>>
        /\ doc.phases[i].state = "pending"
        /\ prev.doc.phases[j].state = "completed"
        /\ doc.phases[j].state = "blocked"

RECURSIVE Versions(_, _)
Versions(b, S) ==
    IF S = {} THEN 0
    ELSE LET t == CHOOSE x \in S : TRUE IN (b[t].ver - 1) + Versions(b, S \ {t})

\* C4: sync_workflow calls no mutating method of the board client: all its calls
\* are get_task, and no step of it changes the board (a step that leaves
\* editsLeft alone is not another editor's).
C4_SyncReadOnly ==
    /\ [](op.kind = "sync" => \A k \in 1..Len(calls) : calls[k].m = "get_task")
    /\ [][(op'.kind = "sync" /\ editsLeft' = editsLeft) => board' = board]_vars

\* A sync that returned after fetching every task of the board.
C4_Witness ==
    /\ Returned("sync")
    /\ Len(calls) = MaxTasks
    /\ Versions(board, Tasks) = 0

SecondAdvance ==
    /\ Returned("advance")
    /\ prev.kind = "advance"
    /\ prev.pc = "done"
    /\ prev.target = op.target

WithoutAdvancedAt(d) == [d EXCEPT !.metadata.advancedAt = NoTime]

\* C5 (as stated): a second advance_phase(doc, T) yields a document identical to
\* the one the first call produced.
C5_Identical == SecondAdvance => doc = prev.doc

\* C5 (amended): a second advance_phase(doc, T) yields a document identical to
\* the one the first call produced except for metadata.advancedAt, which holds
\* the time of the second call.
C5_IdenticalButStamp ==
    SecondAdvance =>
        /\ WithoutAdvancedAt(doc) = WithoutAdvancedAt(prev.doc)
        /\ doc.metadata.advancedAt = now

\* A second advance to the same target, made later than the first.
C5_Witness ==
    /\ SecondAdvance
    /\ doc.metadata.advancedAt # prev.doc.metadata.advancedAt
    /\ calls # <<>>

Pushed(t, phase) ==
    \E k \in 1..Len(calls) :
        /\ calls[k].m = "update_task"
        /\ calls[k].t = t
        /\ calls[k].pct = TASK_PERCENT_COMPLETE[phase.state]
        /\ calls[k].c6 = FALSE

\* C6: when advance_phase returns, every task bound to every phase has been
\* written with the percentComplete mapped from the phase's new state and with
\* the blocker label false.
C6_AllTasksPushed ==
    Returned("advance") =>
        \A i \in 1..NumPhases(doc) :
            \A k \in 1..Len(TaskIdsOf(doc, i)) : Pushed(TaskIdsOf(doc, i)[k], doc.phases[i])

\* C7: closeout_pack's allPhasesCompleted is true exactly when the state
\* evaluated in the call for every phase is "completed".
C7_ReleaseGate ==
    Returned("closeout") =>
        (result.allPhasesCompleted <=>
            \A i \in 1..NumPhases(doc) : evaluate_phase_state(fetched[i]) = "completed")

\* A closeout of several phases that reports all of them completed.
C7_Witness ==
    /\ Returned("closeout")
    /\ NumPhases(doc) >= 2
    /\ result.allPhasesCompleted

Validated == depOut # NoResult /\ ~depOut.raised

IssuesOf(p, d) ==
    {n \in 1..Len(depOut.issues) : depOut.issues[n].phase = p /\ depOut.issues[n].dep = d}

\* The order-index of the phase of the document with this id.
IndexOfId(d) ==
    IndexIn(doc.phases[CHOOSE i \in 1..NumPhases(doc) : doc.phases[i].id = d].name)

DepPairs == {<<i, k>> \in (1..NumPhases(doc)) \X (1..MaxDeps) : k <= Len(doc.phases[i].deps)}

\* C8 (as stated): an issue is recorded for phase P and dependency D exactly
\* when D's order-index is greater than or equal to P's.
C8_IssueIffNotEarlier ==
    Validated =>
        \A pair \in DepPairs :
            LET P == doc.phases[pair[1]]
                D == P.deps[pair[2]]
            IN  IssuesOf(P.id, D) # {} <=>
                    (PhaseMapHas(doc, D) /\ IndexOfId(D) >= IndexIn(P.name))

\* C8 (amended): an issue is recorded for phase P and dependency D exactly when
\* D names no phase of the document (a "missing dependency" issue) or D's
\* order-index is greater than or equal to P's (a "not earlier phase" issue); a
\* dependency with a strictly smaller order-index produces no issue, and no
\* issue is recorded for anything but a dependency of its phase.
C8_IssueIffMissingOrNotEarlier ==
    Validated =>
        /\ \A pair \in DepPairs :
            LET P == doc.phases[pair[1]]
                D == P.deps[pair[2]]
                kinds == {depOut.issues[n].kind : n \in IssuesOf(P.id, D)}
            IN  IF ~PhaseMapHas(doc, D) THEN kinds = {"missing"}
                ELSE IF IndexOfId(D) >= IndexIn(P.name) THEN kinds = {"not-earlier"}
                ELSE kinds = {}
        /\ \A n \in 1..Len(depOut.issues) :
            \E pair \in DepPairs :
                /\ depOut.issues[n].phase = doc.phases[pair[1]].id
                /\ depOut.issues[n].dep = doc.phases[pair[1]].deps[pair[2]]

\* A phase that depends on itself (flagged) and on a strictly earlier phase (not
\* flagged).
C8_Witness ==
    /\ Validated
    /\ \E pair \in DepPairs :
        LET P == doc.phases[pair[1]]
        IN  P.deps[pair[2]] = P.id /\ IssuesOf(P.id, P.id) # {}
    /\ \E pair \in DepPairs :
        LET P == doc.phases[pair[1]]
            D == P.deps[pair[2]]
        IN  PhaseMapHas(doc, D) /\ IndexOfId(D) < IndexIn(P.name) /\ IssuesOf(P.id, D) = {}

\* The dependencies of the document that violate the phase order.
Violations(d) ==
    {pair \in (1..NumPhases(d)) \X (1..1) :
        /\ d.phases[pair[1]].deps # <<>>
        /\ \E j \in 1..NumPhases(d) :
            /\ d.phases[j].id = d.phases[pair[1]].deps[1]
            /\ IndexIn(d.phases[j].name) >= IndexIn(d.phases[pair[1]].name)}

\* C9: sync_workflow never fails because of a dependency-ordering violation: it
\* raises only the error of a failed board call, and otherwise returns with
\* every phase state derived, lastSyncedAt stamped and one issue listed per
\* violation.
C9_ViolationsRecorded ==
    /\ (op.kind = "sync" /\ pc = "raised") =>
            (err = "PlannerError" /\ calls # <<>> /\ faultsLeft < MaxFaults)
    /\ Returned("sync") =>
        /\ \A i \in 1..NumPhases(doc) : doc.phases[i].state = evaluate_phase_state(fetched[i])
        /\ doc.metadata.lastSyncedAt = now
        /\ Len(doc.metadata.dependencyIssues) = Cardinality(Violations(doc))
        /\ \A pair \in Violations(doc) :
            \E n \in 1..Len(doc.metadata.dependencyIssues) :
                doc.metadata.dependencyIssues[n] =
                    [phase |-> doc.phases[pair[1]].id, dep |-> doc.phases[pair[1]].deps[1],
                     kind |-> "not-earlier"]

\* A sync of a document with violated dependencies that returned.
C9_Witness ==
    /\ Returned("sync")
    /\ Violations(doc) # {}
    /\ doc.metadata.dependencyIssues # <<>>

\* C10: over a sequence of advance_phase calls on one document the order-index
\* of metadata.activePhase never decreases.
C10_ForwardOnly ==
    (Returned("advance") /\ prev.doc.metadata.activePhase # NoPhase) =>
        IndexIn(doc.metadata.activePhase) >= IndexIn(prev.doc.metadata.activePhase)

\* A step of advance_phase whose update_task did not change the board.
UpdateFailed ==
    /\ Running({"advance"})
    /\ held # NoTask
    /\ calls' # calls
    /\ board' = board

\* C11: when an update_task call of advance_phase fails, the error reaches the
\* caller with metadata.advancedAt and metadata.activePhase as they were before
\* the call, and advance_phase makes no further board call.
C11_FailedWriteStops ==
    /\ [][UpdateFailed =>
            /\ pc' = "raised"
            /\ err' = "PlannerError"
            /\ doc'.metadata.advancedAt = prev.doc.metadata.advancedAt
            /\ doc'.metadata.activePhase = prev.doc.metadata.activePhase]_vars
    /\ [][(op.kind = "advance" /\ pc = "raised" /\ opsLeft' = opsLeft) => calls' = calls]_vars

\* An advance whose first write met a conflict, with a second bound task left
\* unwritten.
C11_Witness ==
    /\ op.kind = "advance"
    /\ pc = "raised"
    /\ err = "PlannerError"
    /\ faultsLeft = MaxFaults
    /\ Len(calls) = 2
    /\ calls[2].m = "update_task"
    /\ \E i \in 1..NumPhases(doc) : \E k \in 1..Len(TaskIdsOf(doc, i)) :
        TaskIdsOf(doc, i)[k] # calls[2].t

\* The label and the percentage a snapshot carries; an empty body carries none.
Labelled(task) == task.body = "task" /\ task.c6
PercentOf(task) == IF task.body = "task" THEN task.pct ELSE 0

\* C18: on a list without a blocker-labelled task evaluate_phase_state returns
\* "pending" for the empty list, "completed" when every task is at 100,
\* "in-progress" when not all are at 100 and some task is above 0, and "pending"
\* when every task is at 0, a missing percentComplete counting as 0.
C18_CompletionLadder ==
    (evalOut # "none" /\ \A i \in 1..Len(evalIn) : ~Labelled(evalIn[i])) =>
        evalOut = IF Len(evalIn) = 0 THEN "pending"
                  ELSE IF \A i \in 1..Len(evalIn) : PercentOf(evalIn[i]) = 100 THEN "completed"
                  ELSE IF \E i \in 1..Len(evalIn) : PercentOf(evalIn[i]) > 0 THEN "in-progress"
                  ELSE "pending"

\* Every task with a percentComplete is at 100 and one task has none.
C18_Witness ==
    /\ evalOut = "in-progress"
    /\ \E i \in 1..Len(evalIn) : evalIn[i].body = "empty"
    /\ \E i \in 1..Len(evalIn) : evalIn[i].body = "task"
    /\ \A i \in 1..Len(evalIn) : evalIn[i].body = "task" => (evalIn[i].pct = 100 /\ ~evalIn[i].c6)

Permuted(tasks, perm) == [i \in 1..Len(tasks) |-> tasks[perm[i]]]

\* The same snapshot with every field but the label and the percentage changed.
Relabelled(task) ==
    [req |-> "t2", body |-> "task", pct |-> PercentOf(task), c1 |-> ~task.c1,
     c6 |-> Labelled(task), etag |-> task.etag + 1]

\* C19: evaluate_phase_state gives the same result on every permutation of a
\* list, and on a list whose tasks differ from it in nothing but fields other
\* than the blocker label and percentComplete.
C19_OrderIndependent ==
    evalOut # "none" =>
        /\ \A perm \in Permutations(1..Len(evalIn)) :
            evaluate_phase_state(Permuted(evalIn, perm)) = evalOut
        /\ \A S \in SUBSET (1..Len(evalIn)) :
            evaluate_phase_state([i \in 1..Len(evalIn) |->
                IF i \in S THEN Relabelled(evalIn[i]) ELSE evalIn[i]]) = evalOut

\* A list of three different snapshots whose only blocked task is the last.
C19_Witness ==
    /\ evalOut = "blocked"
    /\ Len(evalIn) = 3
    /\ evalIn[1] # evalIn[2] /\ evalIn[2] # evalIn[3] /\ evalIn[1] # evalIn[3]
    /\ ~Labelled(evalIn[1]) /\ ~Labelled(evalIn[2]) /\ Labelled(evalIn[3])

\* The positions of the phases with a task fetched with the blocker label, and
\* the positions of those tasks in one phase.
BlockedAt == {i \in 1..NumPhases(doc) : \E k \in 1..Len(fetched[i]) : Labelled(fetched[i][k])}
LabelledIn(i) == {k \in 1..Len(fetched[i]) : Labelled(fetched[i][k])}

\* The n-th smallest element of a set of positions.
Nth(S, n) == CHOOSE x \in S : Cardinality({y \in S : y < x}) = n - 1

\* C14: blocker_report returns, in document order, one blockedPhases entry for
\* each phase with a bound task fetched with the blocker label and no other
\* entry; an entry's blockedTasks are that phase's labelled tasks, in binding
\* order, each with its id, title and percentComplete.
C14_BlockerReport ==
    Returned("blocker") =>
        /\ \A i \in 1..NumPhases(doc) : ReqIds(fetched[i]) = TaskIdsOf(doc, i)
        /\ Len(result.blockedPhases) = Cardinality(BlockedAt)
        /\ \A n \in 1..Len(result.blockedPhases) :
            LET i == Nth(BlockedAt, n)
                entry == result.blockedPhases[n]
            IN  /\ entry.phaseId = doc.phases[i].id
                /\ entry.phase = doc.phases[i].name
                /\ Len(entry.blockedTasks) = Cardinality(LabelledIn(i))
                /\ \A m \in 1..Len(entry.blockedTasks) :
                    LET task == fetched[i][Nth(LabelledIn(i), m)]
                    IN  entry.blockedTasks[m] =
                            [id |-> task.req, title |-> Title(task.req),
                             percentComplete |-> task.pct]

\* A report whose one entry lists the second of a phase's two tasks only.
C14_Witness ==
    /\ Returned("blocker")
    /\ Len(result.blockedPhases) = 1
    /\ Len(result.blockedPhases[1].blockedTasks) = 1
    /\ \E i \in 1..NumPhases(doc) : Len(fetched[i]) = 2
    /\ result.blockedPhases[1].blockedTasks[1].id = "t2"

\* The last request of the operation met a transport error.
TransportFailed == sent # <<>> /\ sent[Len(sent)].status \in {"error", "conflict"}

\* What the operation found in the files when it began.
FilesUntouched == files = [workflow |-> prev.doc, output |-> NoResult]

\* C12: in every operation a board-client call that raises a transport error
\* makes the operation raise PlannerError to its caller: it returns no document
\* and no report, nothing is written to a file, and it makes no further call.
C12_ErrorsPropagate ==
    /\ [](TransportFailed =>
            /\ pc = "raised"
            /\ err = "PlannerError"
            /\ result = NoResult
            /\ FilesUntouched)
    /\ [][(TransportFailed /\ opsLeft' = opsLeft) => (calls' = calls /\ pc' = pc)]_vars

\* init_plan failing after it created the plan, a bucket and a task.
C12_Witness ==
    /\ op.kind = "init"
    /\ TransportFailed
    /\ remote.plans # <<>>
    /\ remote.buckets # <<>>
    /\ remote.tasks # <<>>

\* A read or a create of the operation was answered without the resource: a
\* body without "@odata.etag" or without "id", which is the empty body.
AnsweredEmpty == \E k \in 1..Len(sent) : sent[k].status = "empty"

\* C13: an operation in which a read returned a task without a concurrency
\* token, a create returned no id or a read returned an empty body does not
\* complete normally.
C13_NoSilentDefault == AnsweredEmpty => pc # "done"

\* C15: blocker-report calls no mutating method of the board client and leaves
\* the workflow document as it was, in memory and in the workflow file, with
\* and without --output.
C15_ReportReadOnly ==
    op.kind = "blocker" =>
        /\ \A k \in 1..Len(calls) : calls[k].m = "get_task"
        /\ doc = prev.doc
        /\ files.workflow = prev.doc

\* C17: a dry-run of init-plan or of advance-phase leaves the stored workflow
\* document as it was.
C17_DryRunPreview ==
    (dry /\ cli.on /\ op.kind \in {"init", "advance"}) => files.workflow = prev.doc

Reads == {"get_task", "get_task_details"}

\* A step in which the operation made a call of a mutating client method.
MutatingCall ==
    /\ calls' # calls
    /\ calls' # <<>>
    /\ calls'[Len(calls')].m \notin Reads

\* C16: with dry_run set, a call of a mutating client method sends no request
\* and returns normally, only GET requests are sent, and no step of an
\* operation changes the board.
C16_DryRunSendsNothing ==
    /\ [](dry => \A k \in 1..Len(sent) : sent[k].method = "GET")
    /\ [][(dry /\ MutatingCall) => (sent' = sent /\ pc' # "raised")]_vars
    /\ [][(dry /\ editsLeft' = editsLeft) => (board' = board /\ remote' = remote)]_vars

\* A dry run of init_plan that made all its create calls and returned.
C16_Witness ==
    /\ dry
    /\ Returned("init")
    /\ Len(calls) >= 1 + NumPhases(doc)
    /\ \E k \in 1..Len(calls) : calls[k].m = "create_task"
    /\ sent = <<>>
    /\ remote = NoRemote

\* The version of the resource a request addresses.
VersionOf(req) ==
    IF req.path = "tasks" THEN board[req.id].ver ELSE remote.tasks[CreatedAt(req.id)].ver

\* A step that sent a PATCH whose If-Match etag was not the resource's current one.
StalePatch ==
    /\ sent' # sent
    /\ sent' # <<>>
    /\ sent'[Len(sent')].method = "PATCH"
    /\ sent'[Len(sent')].ifMatch # VersionOf(sent'[Len(sent')])

\* C20 (as stated): every request of a mutating call carries a concurrency
\* token.
C20_EveryWriteConditional ==
    \A k \in 1..Len(sent) : sent[k].method # "GET" => sent[k].ifMatch # NoEtag

\* C20 (amended): every PATCH an operation sends carries in If-Match the etag
\* that the directly preceding request, a GET of the same resource, returned;
\* the POST of a create carries none; and a PATCH sent with an etag that is no
\* longer the resource's current one raises PlannerError and changes nothing on
\* the board.
C20_UpdatesCarryToken ==
    /\ [](\A k \in 1..Len(sent) :
            /\ sent[k].method = "POST" => sent[k].ifMatch = NoEtag
            /\ sent[k].method = "PATCH" =>
                /\ k > 1
                /\ sent[k - 1].method = "GET"
                /\ sent[k - 1].path = sent[k].path
                /\ sent[k - 1].id = sent[k].id
                /\ sent[k - 1].status = "ok"
                /\ sent[k].ifMatch = sent[k - 1].etag
                /\ sent[k].ifMatch # NoEtag)
    /\ [][StalePatch =>
            /\ pc' = "raised"
            /\ err' = "PlannerError"
            /\ board' = board
            /\ remote' = remote]_vars

\* An update_task that met a conflict: another editor changed the task after it
\* was read.
C20_Witness ==
    /\ sent # <<>>
    /\ sent[Len(sent)].method = "PATCH"
    /\ sent[Len(sent)].status = "conflict"
    /\ sent[Len(sent)].ifMatch # board[sent[Len(sent)].id].ver
    /\ pc = "raised"

\* C21: one call of a client method sends at most one request, and a request
\* that fails, on a conflict or on any other error, is the last one of the
\* operation: the client raises and nothing is sent again.
C21_NeverRetries ==
    /\ [](Len(sent) <= Len(calls))
    /\ [](\A k \in 1..Len(sent) : sent[k].status \in {"error", "conflict"} => k = Len(sent))
    /\ [][(calls' # calls /\ calls' # <<>>) =>
            /\ Len(calls') = Len(calls) + 1
            /\ Len(sent') <= Len(sent) + 1]_vars
    /\ [][(TransportFailed /\ opsLeft' = opsLeft) => sent' = sent]_vars

\* An update_task that met a conflict after one request per call.
C21_Witness ==
    /\ TransportFailed
    /\ sent[Len(sent)].status = "conflict"
    /\ Len(sent) = Len(calls)
    /\ Len(sent) >= 4

\* The stand-alone request was sent and did not succeed.
RequestFailed == reqIn # NoRequest /\ pc # "idle" /\ sent # <<>> /\ ~Success(reqIn.response)

\* C22: a request that met a status outside 2xx or a connection failure leaves
\* the client as PlannerError, with the status and the body of the response
\* when there is one; the client method does not return.
C22_TypedError ==
    RequestFailed =>
        /\ pc = "raised"
        /\ err = "PlannerError"
        /\ reqIn.response.kind = "http" =>
                result.code = reqIn.response.code /\ result.body = reqIn.response.body


\* C27: advance_phase raises ValueError exactly when its target, upper-cased,
\* is not a name of PHASE_ORDER, and it then has made no board call and the
\* document is the one it was given: every phase state and the metadata.
C27_InvalidTarget ==
    (op.kind = "advance" /\ pc # "idle") =>
        /\ (pc = "raised" /\ err = "ValueError") <=> ~InPhaseOrder(Upper(op.target))
        /\ ~InPhaseOrder(Upper(op.target)) =>
                /\ calls = <<>>
                /\ sent = <<>>
                /\ doc = prev.doc

\* An advance to a name outside PHASE_ORDER, after an operation that had
\* changed the document.
C27_Witness ==
    /\ op.kind = "advance"
    /\ op.target = "DEPLOY"
    /\ pc = "raised"
    /\ prev.kind = "advance"
    /\ prev.pc = "done"
    /\ doc.metadata.activePhase # NoPhase


\* C28: closeout_pack's phaseSummary has one entry per phase of the document,
\* in document order; the entry's state is the state evaluated from the tasks
\* that this call fetched for the phase's bound ids, and its taskCount is the
\* number of those ids.
C28_SummaryFromSync ==
    Returned("closeout") =>
        /\ Len(result.phaseSummary) = NumPhases(prev.doc)
        /\ \A i \in 1..NumPhases(prev.doc) :
            /\ result.phaseSummary[i].phase = prev.doc.phases[i].name
            /\ ReqIds(fetched[i]) = TaskIdsOf(prev.doc, i)
            /\ result.phaseSummary[i].state = evaluate_phase_state(fetched[i])
            /\ result.phaseSummary[i].taskCount = Len(TaskIdsOf(prev.doc, i))

\* A closeout whose summary differs from the stored states, over phases with
\* two, one and no bound task.
C28_Witness ==
    /\ Returned("closeout")
    /\ \E i \in 1..NumPhases(doc) :
        /\ result.phaseSummary[i].state # prev.doc.phases[i].state
        /\ result.phaseSummary[i].taskCount = 2
    /\ \E i \in 1..NumPhases(doc) : result.phaseSummary[i].taskCount = 0


\* C29: in advance_phase every update_task(t, token, ...) is the call directly
\* after get_task(t) in the same operation, and its token is the etag that
\* this get_task returned.
C29_TokenJustRead ==
    op.kind = "advance" =>
        \A k \in 1..Len(calls) :
            calls[k].m = "update_task" =>
                /\ k > 1
                /\ calls[k - 1].m = "get_task"
                /\ calls[k - 1].t = calls[k].t
                /\ Len(sent) = Len(calls)
                /\ sent[k - 1].status = "ok"
                /\ sent[k - 1].etag = calls[k].etag
                /\ calls[k].etag # NoEtag

\* A second advance_phase writes a task the first one had written, with the
\* token of its own read.
C29_Witness ==
    /\ op.kind = "advance"
    /\ prev.kind = "advance"
    /\ prev.pc = "done"
    /\ pc = "done"
    /\ \E k \in 1..Len(calls) :
        /\ calls[k].m = "update_task"
        /\ calls[k].etag > 1
        /\ sent[k].status = "ok"

\* The task read by get_task was changed on the board before update_task.
EditedSinceRead == Running({"advance"}) /\ held # NoTask /\ board[held.req].ver # GetEtag(held)

\* C30 (as stated): when a bound task is edited on the board between
\* advance_phase's get_task and its update_task, the update fails (with the
\* conflict status unless the transport fails first), advance_phase raises, and
\* the board keeps the other editor's values.
C30_NoLostUpdate ==
    [][(EditedSinceRead /\ calls' # calls) =>
            /\ calls'[Len(calls')].m = "update_task"
            /\ calls'[Len(calls')].t = held.req
            /\ pc' = "raised"
            /\ err' = "PlannerError"
            /\ sent'[Len(sent')].status \in {"conflict", "error"}
            /\ faultsLeft' = faultsLeft => sent'[Len(sent')].status = "conflict"
            /\ board' = board]_vars

\* C30 (amended): the board keeps the other editor's values in every case; the
\* update fails and advance_phase raises when the client sends the update,
\* that is outside dry-run, where update_task returns its echo instead.
C30_NoLostUpdateWhenSent ==
    [][(EditedSinceRead /\ calls' # calls) =>
            /\ calls'[Len(calls')].m = "update_task"
            /\ calls'[Len(calls')].t = held.req
            /\ board' = board
            /\ IF dry
               THEN sent' = sent
               ELSE /\ pc' = "raised"
                    /\ err' = "PlannerError"
                    /\ sent'[Len(sent')].status \in {"conflict", "error"}
                    /\ faultsLeft' = faultsLeft => sent'[Len(sent')].status = "conflict"]_vars

\* An update_task that met the conflict left the other editor's values, which
\* differ from the ones it sent.
C30_Witness ==
    /\ op.kind = "advance"
    /\ pc = "raised"
    /\ editsLeft < MaxEdits
    /\ calls # <<>>
    /\ LET call == calls[Len(calls)]
       IN  /\ call.m = "update_task"
           /\ sent[Len(sent)].status = "conflict"
           /\ board[call.t].ver = call.etag + 1
           /\ <<board[call.t].pct, board[call.t].c6>> # <<call.pct, call.c6>>


\* The buckets init_plan has created in the plan the document is bound to.
BucketsOfPlan == {b \in 1..Len(remote.buckets) : remote.buckets[b].planId = doc.planner.planId}

\* C23: the buckets init_plan creates for a plan are created in the order of
\* PHASE_ORDER and their order hints increase in that order, whatever the
\* order of the phases in the document; there is one bucket per phase.
C23_BucketsInPhaseOrder ==
    (Returned("init") /\ faultsLeft = MaxFaults) =>
        /\ \A i \in 1..NumPhases(doc) :
            \E b \in BucketsOfPlan : remote.buckets[b].name = doc.phases[i].name
        /\ \A a, b \in BucketsOfPlan :
            IndexIn(remote.buckets[a].name) < IndexIn(remote.buckets[b].name) =>
                /\ a < b
                /\ remote.buckets[a].hint < remote.buckets[b].hint


\* The task of this id on the board, created by init_plan.
Created(t) == remote.tasks[CHOOSE n \in 1..Len(remote.tasks) : remote.tasks[n].id = t]
CreatedIds == {remote.tasks[n].id : n \in 1..Len(remote.tasks)}

\* Phase i of document d is bound to its own bucket of plan p and to one task
\* per template, in template order, each created in that bucket of that plan.
PhaseBound(d, i, p) ==
    LET phase == d.phases[i]
    IN  /\ phase.bucketId \in 1..Len(remote.buckets)
        /\ remote.buckets[phase.bucketId].name = phase.name
        /\ remote.buckets[phase.bucketId].planId = p
        /\ \A j \in 1..NumPhases(d) : d.phases[j].bucketId = phase.bucketId => j = i
        /\ Len(phase.taskIds) = Len(phase.templates)
        /\ \A k \in 1..Len(phase.taskIds) :
            /\ phase.taskIds[k] \in CreatedIds
            /\ Created(phase.taskIds[k]).title = phase.templates[k].title
            /\ Created(phase.taskIds[k]).bucketId = phase.bucketId
            /\ Created(phase.taskIds[k]).planId = p

\* C24: after init_plan returns, the document holds the id of the plan it
\* created, every phase the id of its own bucket, and every phase's taskIds one
\* task id per task template, in template order, each of a task created in
\* that phase's bucket of that plan.
C24_AllBound ==
    Returned("init") =>
        /\ doc.planner.planId = Len(remote.plans)
        /\ doc.planner.planId # NoId
        /\ doc.planner.groupId = GroupId
        /\ \A i \in 1..NumPhases(doc) : PhaseBound(doc, i, doc.planner.planId)

ArgumentMissing ==
    /\ cli.on
    /\ pc # "idle"
    /\ \/ op.kind = "advance" /\ ~cli.phase
       \/ op.kind = "init" /\ (~cli.group \/ ~cli.title)

\* C26: advance-phase without --phase and init-plan without --group-id or
\* --plan-title end in SystemExit, raised before any board-client call, any
\* request and any file write; no other run ends in SystemExit.
C26_MissingArgumentFatal ==
    /\ ArgumentMissing =>
        /\ pc = "raised"
        /\ err = "SystemExit"
        /\ calls = <<>>
        /\ sent = <<>>
        /\ remote = NoRemote
        /\ FilesUntouched
    /\ err = "SystemExit" => ArgumentMissing

\* init-plan with --group-id and without --plan-title has exited.
C26_Witness ==
    /\ ArgumentMissing
    /\ op.kind = "init"
    /\ cli.group
    /\ ~cli.title
    /\ pc = "raised"


\* advance_phase has returned after an advance_phase to the same target that
\* raised.
RetryCompleted ==
    /\ Returned("advance")
    /\ prev.kind = "advance"
    /\ prev.pc = "raised"
    /\ prev.target = op.target

\* Task t holds what this advance_phase writes for a phase in this state, unless
\* another editor changed it after the write.
Holds(t, state) ==
    \E n \in 1..Len(calls) :
        /\ calls[n].m = "update_task"
        /\ calls[n].t = t
        /\ calls[n].pct = TASK_PERCENT_COMPLETE[state]
        /\ calls[n].c6 = (state = "blocked")
        /\ sent[n].status = "ok"
        /\ board[t].ver = calls[n].etag + 1 =>
                board[t].pct = calls[n].pct /\ board[t].c6 = calls[n].c6

\* C31: an advance_phase(doc, T) that completes after one that failed leaves
\* the phase states and every bound task's percentComplete and blocker label
\* as one uninterrupted advance_phase(doc, T) leaves them.
C31_SelfCorrecting ==
    RetryCompleted =>
        \A i \in 1..NumPhases(doc) :
            /\ doc.phases[i].state =
                   PhaseStateFor(IndexIn(doc.phases[i].name), IndexIn(Upper(op.target)))
            /\ \A k \in 1..Len(TaskIdsOf(doc, i)) :
                   Holds(TaskIdsOf(doc, i)[k], doc.phases[i].state)


\* C33: a sync_workflow that follows a completed advance_phase, with no edit by
\* anyone else and every board call answered in full, leaves the state of
\* every phase as advance_phase set it.
C33_SyncKeepsAdvance ==
    (/\ Returned("sync")
     /\ prev.kind = "advance"
     /\ prev.pc = "done"
     /\ editsLeft = MaxEdits
     /\ faultsLeft = MaxFaults) =>
        \A i \in 1..NumPhases(doc) : doc.phases[i].state = prev.doc.phases[i].state


\* The snapshot is not that of a task at 100 percent without the blocker label.
Unfinished(task) == task.body = "empty" \/ task.c6 \/ task.pct < 100

\* C34: closeout_pack does not report allPhasesCompleted when, in the call, a
\* task bound to a phase was fetched with the blocker label or below 100
\* percent, or when a phase of the document has no bound task.
C34_GateSafe ==
    (/\ Returned("closeout")
     /\ \E i \in 1..NumPhases(doc) :
            \/ TaskIdsOf(doc, i) = <<>>
            \/ \E k \in 1..Len(fetched[i]) : Unfinished(fetched[i][k])) =>
        ~result.allPhasesCompleted

\* A closeout that is held back by the blocker label alone: every phase has
\* tasks and every task is at 100 percent.
C34_Witness ==
    /\ Returned("closeout")
    /\ ~result.allPhasesCompleted
    /\ \A i \in 1..NumPhases(doc) :
        /\ TaskIdsOf(doc, i) # <<>>
        /\ \A k \in 1..Len(fetched[i]) : fetched[i][k].body = "task" /\ fetched[i][k].pct = 100
    /\ \E i \in 1..NumPhases(doc) : \E k \in 1..Len(fetched[i]) : fetched[i][k].c6


\* C35: after advance_phase(doc, T) returns, metadata.activePhase is the
\* upper-case name of T and the document has a phase of that name whose state
\* is "in-progress".
C35_ActivePhase ==
    Returned("advance") =>
        /\ doc.metadata.activePhase = Upper(op.target)
        /\ \E i \in 1..NumPhases(doc) :
            /\ Upper(doc.phases[i].name) = doc.metadata.activePhase
            /\ doc.phases[i].state = "in-progress"


\* The document the operation was given has a phase whose name, upper-cased,
\* is not in PHASE_ORDER.
HasUnknownPhase ==
    \E i \in 1..NumPhases(prev.doc) : ~InPhaseOrder(Upper(prev.doc.phases[i].name))

\* C36: advance_phase on a document with a phase whose name is not in
\* PHASE_ORDER raises ValueError with no update_task made and with every
\* phase state as it was before the call (every board call answered in full
\* and no edit by anyone else).
C36_UnknownPhaseFirst ==
    (/\ op.kind = "advance"
     /\ pc \in {"done", "raised"}
     /\ HasUnknownPhase
     /\ faultsLeft = MaxFaults
     /\ editsLeft = MaxEdits) =>
        /\ pc = "raised"
        /\ err = "ValueError"
        /\ \A k \in 1..Len(calls) : calls[k].m # "update_task"
        /\ \A i \in 1..NumPhases(doc) : doc.phases[i].state = prev.doc.phases[i].state


\* C37: an update_task of advance_phase sends the label other than the blocker
\* label with the value that the get_task before it read, and the write
\* changes the task's percentComplete, blocker label and etag only, and no
\* other task.
C37_WritesOnlyItsFields ==
    /\ [](op.kind = "advance" =>
            \A n \in 1..Len(calls) :
                calls[n].m = "update_task" =>
                    \E i \in 1..Len(fetched) : \E k \in 1..Len(fetched[i]) :
                        /\ fetched[i][k].req = calls[n].t
                        /\ fetched[i][k].etag = calls[n].etag
                        /\ fetched[i][k].c1 = calls[n].c1)
    /\ [][(Running({"advance"}) /\ calls' # calls /\ board' # board) =>
            LET call == calls'[Len(calls')]
            IN  /\ call.m = "update_task"
                /\ \A t \in Tasks \ {call.t} : board'[t] = board[t]
                /\ board'[call.t] = [board[call.t] EXCEPT !.pct = call.pct, !.c6 = call.c6,
                                                          !.ver = @ + 1]]_vars

\* A write that cleared the blocker label of a task and kept its other label.
C37_Witness ==
    /\ Returned("advance")
    /\ \E n \in 1..Len(calls) :
        /\ calls[n].m = "update_task"
        /\ calls[n].c1
        /\ sent[n].status = "ok"
        /\ board[calls[n].t].c1
        /\ ~board[calls[n].t].c6
        /\ \E i \in 1..Len(fetched) : \E k \in 1..Len(fetched[i]) :
            fetched[i][k].req = calls[n].t /\ fetched[i][k].c6


\* C38: while an operation runs and after it has raised, whatever the error,
\* the workflow file and the output file hold what they held before main()
\* was run, also when the operation had already written tasks on the board.
C38_NoWriteOnError == (cli.on /\ pc \in {"run", "raised"}) => FilesUntouched

\* advance-phase raised after it had changed a task on the board and the
\* document in memory.
C38_Witness ==
    /\ cli.on
    /\ op.kind = "advance"
    /\ pc = "raised"
    /\ FilesUntouched
    /\ doc # files.workflow
    /\ \E n \in 1..Len(sent) : sent[n].method = "PATCH" /\ sent[n].status = "ok"


\* The invocations that wrote the workflow file, in the order of their writes.
WorkflowWriters == SelectSeq(runs.writes, LAMBDA w : w.path = "workflow")

C40_AllLeave == <>(worklogs # NoWorklogs /\ Pending = {})

====
